---------------------------- MODULE Spec2Model ----------------------------
(***************************************************************************)
(* A model of src/execution/execute.ts (graphql-js with @defer/@stream).   *)
(*                                                                         *)
(* Two state machines share this module:                                   *)
(*   SpecExec  - execute() over a tree of fields: resolver invocation,     *)
(*               value completion, non-null bubbling, serial / parallel    *)
(*               assembly, registration of deferred fragments.             *)
(*   SpecYield - the generator built by yieldSubsequentPayloads over the   *)
(*               registry exeContext.subsequentPayloads.                   *)
(* JavaScript runs every callback to completion, so one action is one      *)
(* synchronous run: the call of execute(), or the reaction to one settled  *)
(* promise together with the promise reactions it triggers.                *)
(***************************************************************************)
EXTENDS Integers, Sequences, FiniteSets, TLC

VARIABLES
    cfg,                \* the schema + document + resolvers under execution
    st,                 \* per field: where executeField's result stands
    err,                \* per field: the located error a failed field raised
    errors,             \* exeContext.errors
    recErrors,          \* AsyncPayloadRecord.errors, per record
    invoked,            \* resolver invocations, in call order
    subsequentPayloads, \* exeContext.subsequentPayloads
    recData,            \* per record: outcome of the fragment's executeFields
    rootSt,             \* executeOperation's result
    serialNext,         \* promiseReduce: index of the next root field
    returned,           \* what execute() returned synchronously
    resolvedTo,         \* what the returned promise resolved to
    late,               \* errors pushed after the initial result was built
    response,           \* the ExecutionResult execute built: which keys it has
    resultKeys,         \* the keys of each `results` map, in insertion order
    listArgs,           \* the iterable and the @stream directive of a list field
    listResult,         \* what completeListValue made of them
    typeArgs,           \* a value of abstract type and the schema around it
    typeResult,         \* what completeAbstractValue made of them
    syncResult,         \* what executeSync() returned or raised
    valueArgs,          \* what a resolver, a promise or a list element yielded
    valueResult,        \* what executeField made of it
    payloadArgs,        \* the work beneath a chain of payload records
    payloadResult,      \* the records' data promises and error lists
    recs,               \* the AsyncPayloadRecord objects created so far
    jobs,               \* queued reactions of race(): <<next() call, record>>
    hasReturnedInitialResult,   \* _hasReturnedInitialResult
    isDone,             \* isDone
    outstanding,        \* next() calls whose promise is unresolved
    nextCount,          \* next() calls made
    emitted,            \* what the next() calls resolved with, in order
    retState,           \* return() / throw(): none, called, done
    iter,               \* the source async iterator of the streamed list
    inflight            \* fields of an abandoned selection set still running

execVars == <<cfg, st, err, errors, recErrors, invoked, recData,
              rootSt, serialNext, returned, resolvedTo, late, response,
              resultKeys, listArgs, listResult, typeArgs,
              typeResult, syncResult, valueArgs, valueResult,
              payloadArgs, payloadResult>>

yieldVars == <<recs, jobs, hasReturnedInitialResult, isDone, outstanding,
               nextCount, emitted, retState, iter, inflight>>

vars == <<execVars, yieldVars, subsequentPayloads>>

-----------------------------------------------------------------------------
(* Bounds of the model *)

MaxAsync == 2       \* fields whose resolver / isTypeOf returns a promise
MaxFail == 2       \* fields whose resolver raises, rejects or yields null
MaxDefer == 1       \* fields selected through a `... @defer` fragment
MaxOps == 2         \* operation definitions in the document

-----------------------------------------------------------------------------
(* The document: { a { c d } b }, with a an object field. *)

Fields == {1, 2, 3, 4}
Parent == <<0, 0, 1, 1>>
FieldOrder == <<1, 2, 3, 4>>
IsObject(f) == f = 1

Behaviours == {"value", "null", "throw",
               "promiseValue", "promiseNull", "promiseReject"}
AsyncBeh == {"promiseValue", "promiseNull", "promiseReject"}
FailBeh == {"null", "throw", "promiseNull", "promiseReject"}
TypeOfs == {"none", "false", "promiseTrue", "promiseFalse"}

Pending == {"resolving", "typing", "assembling"}
Settled == {"value", "null", "failed"}

\* the selection set of p (0: the operation), in document order
Children(p) == SelectSeq(FieldOrder, LAMBDA f : Parent[f] = p)
\* fields merged into the grouped field set / fields collected as patches
Plain(p) == SelectSeq(Children(p), LAMBDA f : ~cfg.deferred[f])
Patches(p) == SelectSeq(Children(p), LAMBDA f : cfg.deferred[f])

Range(s) == {s[i] : i \in 1..Len(s)}
\* Array.prototype.indexOf for an element the array holds
Min0(s, x) == CHOOSE i \in 1..Len(s) : s[i] = x /\ \A j \in 1..(i - 1) : s[j] # x

-----------------------------------------------------------------------------
(* The state the operators below transform, as one record. *)

Cur == [st |-> st, err |-> err, errors |-> errors, recErrors |-> recErrors,
        invoked |-> invoked, subsequentPayloads |-> subsequentPayloads, recData |-> recData,
        rootSt |-> rootSt, serialNext |-> serialNext, returned |-> returned,
        resolvedTo |-> resolvedTo, late |-> late, response |-> response,
        resultKeys |-> resultKeys, syncResult |-> syncResult]

Set(S) ==
    /\ st' = S.st
    /\ err' = S.err
    /\ errors' = S.errors
    /\ recErrors' = S.recErrors
    /\ invoked' = S.invoked
    /\ subsequentPayloads' = S.subsequentPayloads
    /\ recData' = S.recData
    /\ rootSt' = S.rootSt
    /\ serialNext' = S.serialNext
    /\ returned' = S.returned
    /\ resolvedTo' = S.resolvedTo
    /\ late' = S.late
    /\ response' = S.response
    /\ resultKeys' = S.resultKeys
    /\ syncResult' = S.syncResult
    /\ UNCHANGED <<listArgs, listResult, typeArgs, typeResult>>
    /\ UNCHANGED <<valueArgs, valueResult, payloadArgs, payloadResult>>
    /\ cfg' = cfg
    /\ UNCHANGED yieldVars

\* the initial result has been built (returned, or the promise resolved)
Delivered(S) == S.returned \in {"result", "generator"} \/ S.resolvedTo # "none"

\* the record a field executes under: `asyncPayloadRecord` as it is handed
\* down from executeDeferredFragment (0: none, the primary payload)
RECURSIVE RecOf(_)
RecOf(f) ==
    IF f = 0 THEN 0
    ELSE IF cfg.deferred[f] THEN f
    ELSE RecOf(Parent[f])

\* errors.push(error) on exeContext.errors whatever the record
LogPrimary(S, rec, e) ==
    [S EXCEPT !.errors = Append(@, e),
              !.late = IF Delivered(S) THEN @ + 1 ELSE @]

\* errors.push(error) on `asyncPayloadRecord?.errors ?? exeContext.errors`
Log(S, rec, e) ==
    IF rec = 0
    THEN [S EXCEPT !.errors = Append(@, e),
                   !.late = IF Delivered(S) THEN @ + 1 ELSE @]
    ELSE [S EXCEPT !.recErrors[rec] = Append(@, e)]

\* what a type resolver can return: null or undefined, a GraphQLObjectType
\* object, another non-string, or a name: of no type of the schema, of a
\* non-object type, of an object type that is not a possible type, or of the
\* i-th possible type
RuntimeValue(k, i) == [k |-> k, i |-> i]

\* executeSync has not been called
NoSync == [out |-> "none", v |-> [data |-> "unbuilt", errors |-> FALSE]]

\* no single value is being completed
NoValue ==
    [result |-> "none", nonNull |-> FALSE, rec |-> FALSE, item |-> FALSE,
     e |-> 0]
NoRun ==
    [phase |-> "none", out |-> "none", thrown |-> <<>>, errors |-> <<>>,
     recErrors |-> <<>>]
NoValueResult == [yielded |-> NoRun, raised |-> NoRun]

\* no value of abstract type is being completed
NoType ==
    [n |-> 0, isTypeOf |-> <<>>, typename |-> RuntimeValue("null", 0),
     custom |-> FALSE, returns |-> RuntimeValue("null", 0), async |-> FALSE]
NoTypeResult ==
    [phase |-> "none", runtime |-> RuntimeValue("null", 0), pending |-> <<>>,
     called |-> <<>>, type |-> 0, out |-> "none"]

\* no list field is being completed
NoList ==
    [n |-> 0, items |-> <<>>, stream |-> "none", initialCount |-> 0,
     nonNull |-> FALSE]
NoListResult == [out |-> "none", completedResults |-> <<>>, errors |-> <<>>]

\* the `results` maps: one per selection set (named by the parent field, 0 for
\* the root) and one per deferred fragment
Maps == 0..(2 * Cardinality(Fields))
MapOf(f) == IF cfg.deferred[f] THEN Cardinality(Fields) + f ELSE Parent[f]

\* results[responseName] = result, on a map that lists the new key first
SetResultInFront(S, f) == [S EXCEPT !.resultKeys[MapOf(f)] = <<f>> \o @]

\* results[responseName] = result
SetResult(S, f) == [S EXCEPT !.resultKeys[MapOf(f)] = Append(@, f)]

\* handleFieldError without the `return null` branch: every error is rethrown
HandleFieldErrorRethrows(S, f, e, rec) ==
    [S EXCEPT !.st[f] = "failed", !.err[f] = e]

\* handleFieldError pushing the error before the non-null test
HandleFieldErrorLogsFirst(S, f, e, rec) ==
    IF cfg.nonNull[f]
    THEN [Log(S, rec, e) EXCEPT !.st[f] = "failed", !.err[f] = e]
    ELSE [Log(S, rec, e) EXCEPT !.st[f] = "null"]

\* handleFieldError on an error located anew at the field that handles it
HandleFieldErrorRelocates(S, f, e, rec) ==
    IF cfg.nonNull[f]
    THEN [S EXCEPT !.st[f] = "failed", !.err[f] = f]
    ELSE [Log(S, rec, f) EXCEPT !.st[f] = "null"]

\* handleFieldError followed by another call of the resolver
HandleFieldErrorRetries(S, f, e, rec) ==
    IF cfg.nonNull[f]
    THEN [S EXCEPT !.st[f] = "failed", !.err[f] = e,
                   !.invoked = Append(@, f)]
    ELSE [Log(S, rec, e) EXCEPT !.st[f] = "null", !.invoked = Append(@, f)]

\* handleFieldError: rethrow under a non-null type, else log and yield null
HandleFieldError(S, f, e, rec) ==
    IF cfg.nonNull[f]
    THEN [S EXCEPT !.st[f] = "failed", !.err[f] = e]
    ELSE [Log(S, rec, e) EXCEPT !.st[f] = "null"]

RECURSIVE ExecuteField(_, _, _)
RECURSIVE ExecuteFields(_, _, _, _)
RECURSIVE ExecutePatches(_, _, _)

\* executeDeferredFragment: run the patch { d } under a new record, catch
\* what executeFields throws, register the record
ExecuteDeferredFragment(S, d) ==
    LET r == ExecuteFields(S, <<d>>, 1, d)
        S1 == IF r.out = "throw"
              THEN [r.S EXCEPT !.recErrors[d] = Append(@, r.e),
                               !.recData[d] = "null"]
              ELSE [r.S EXCEPT !.recData[d] =
                                   IF r.out = "promise" THEN "pending" ELSE "data"]
    IN  [S1 EXCEPT !.subsequentPayloads = Append(@, d)]

\* the `for (const patch of patches)` loops of executeOperation and
\* collectAndExecuteSubfields
ExecutePatches(S, ds, i) ==
    IF i > Len(ds) THEN S
    ELSE ExecutePatches(ExecuteDeferredFragment(S, ds[i]), ds, i + 1)

\* collectAndExecuteSubfields, and the handler executeField puts around it
CollectAndExecuteSubfields(S, f, rec) ==
    LET r == ExecuteFields(S, Plain(f), 1, rec)
    IN  IF r.out = "throw"
        THEN HandleFieldError(r.S, f, r.e, rec)
        ELSE [ExecutePatches(r.S, Patches(f), 1) EXCEPT
                  !.st[f] = IF r.out = "promise" THEN "assembling" ELSE "value"]

\* completeObjectValue: the isTypeOf guard
CompleteObjectValue(S, f, rec) ==
    CASE cfg.typeOf[f] = "false" -> HandleFieldError(S, f, f, rec)
      [] cfg.typeOf[f] \in {"promiseTrue", "promiseFalse"} ->
            [S EXCEPT !.st[f] = "typing"]
      [] OTHER -> CollectAndExecuteSubfields(S, f, rec)

\* completeValue for a resolved value that is null (nonNil = FALSE) or not
CompleteValue(S, f, nonNil, rec) ==
    IF ~nonNil
    THEN IF cfg.nonNull[f]
         THEN HandleFieldError(S, f, f, rec)
         ELSE [S EXCEPT !.st[f] = "null"]
    ELSE IF IsObject(f)
         THEN CompleteObjectValue(S, f, rec)
         ELSE [S EXCEPT !.st[f] = "value"]

\* executeField: call the resolver, complete its value, handle its error
ExecuteField(S, f, rec) ==
    LET S1 == [S EXCEPT !.invoked = Append(@, f)]
    IN  CASE cfg.beh[f] = "throw" -> HandleFieldError(S1, f, f, rec)
          [] cfg.beh[f] \in AsyncBeh -> [S1 EXCEPT !.st[f] = "resolving"]
          [] OTHER -> CompleteValue(S1, f, cfg.beh[f] = "value", rec)

\* executeFields handing every result to promiseForObject
RECURSIVE ExecuteFieldsAlwaysPromise(_, _, _, _)
ExecuteFieldsAlwaysPromise(S, fs, i, rec) ==
    IF i > Len(fs)
    THEN [S |-> S, e |-> 0, out |-> "promise"]
    ELSE LET S1 == ExecuteField(S, fs[i], rec)
         IN  IF S1.st[fs[i]] = "failed"
             THEN [S |-> S1, e |-> S1.err[fs[i]], out |-> "throw"]
             ELSE ExecuteFieldsAlwaysPromise(S1, fs, i + 1, rec)

\* executeFields leaving its loop after the first field
ExecuteFieldsFirstOnly(S, fs, i, rec) ==
    IF i > Len(fs)
    THEN [S |-> S, e |-> 0, out |-> "value"]
    ELSE LET S1 == ExecuteField(S, fs[i], rec)
         IN  IF S1.st[fs[i]] = "failed"
             THEN [S |-> S1, e |-> S1.err[fs[i]], out |-> "throw"]
             ELSE [S |-> SetResult(S1, fs[i]), e |-> 0,
                   out |-> IF S1.st[fs[i]] \in Pending
                           THEN "promise" ELSE "value"]

\* executeFields: the loop over the grouped field set, then promiseForObject
ExecuteFields(S, fs, i, rec) ==
    IF i > Len(fs)
    THEN [S |-> S, e |-> 0,
          out |-> IF \E j \in 1..Len(fs) : S.st[fs[j]] \in Pending
                  THEN "promise" ELSE "value"]
    ELSE LET S1 == ExecuteField(S, fs[i], rec)
         IN  IF S1.st[fs[i]] = "failed"
             THEN [S |-> S1, e |-> S1.err[fs[i]], out |-> "throw"]
             ELSE ExecuteFields(SetResult(S1, fs[i]), fs, i + 1, rec)

\* promiseReduce (jsutils), as serial execution is specified: the callback of
\* the next field runs once the accumulator of field f is no longer a promise
PromiseReduceWaits(S, f) == S.st[f] \in Pending

\* executeFieldsSerially whose reducer does not wait for a pending field
RECURSIVE ExecuteFieldsWithoutWaiting(_, _)
ExecuteFieldsWithoutWaiting(S, i) ==
    IF i > Len(Plain(0))
    THEN [S |-> [S EXCEPT !.serialNext = i], e |-> 0,
          out |-> IF \E j \in 1..Len(Plain(0)) : S.st[Plain(0)[j]] \in Pending
                  THEN "promise" ELSE "value"]
    ELSE LET f == Plain(0)[i]
             S1 == ExecuteField(S, f, 0)
         IN  IF S1.st[f] = "failed"
             THEN [S |-> S1, e |-> S1.err[f], out |-> "throw"]
             ELSE ExecuteFieldsWithoutWaiting(S1, i + 1)

\* executeFieldsSerially going on with the next field after a failure
RECURSIVE ExecuteFieldsSeriallyPastFailure(_, _)
ExecuteFieldsSeriallyPastFailure(S, i) ==
    IF i > Len(Plain(0))
    THEN [S |-> S, e |-> 0, out |-> "value"]
    ELSE LET f == Plain(0)[i]
             S1 == ExecuteField(S, f, 0)
         IN  CASE S1.st[f] = "failed" ->
                    [ExecuteFieldsSeriallyPastFailure(S1, i + 1) EXCEPT
                        !.e = S1.err[f], !.out = "throw"]
               [] PromiseReduceWaits(S1, f) ->
                    [S |-> [S1 EXCEPT !.serialNext = i + 1], e |-> 0,
                     out |-> "promise"]
               [] OTHER ->
                    ExecuteFieldsSeriallyPastFailure(SetResult(S1, f), i + 1)

\* executeFieldsSerially: promiseReduce over the root fields from index i
RECURSIVE ExecuteFieldsSerially(_, _)
ExecuteFieldsSerially(S, i) ==
    IF i > Len(Plain(0))
    THEN [S |-> S, e |-> 0, out |-> "value"]
    ELSE LET f == Plain(0)[i]
             S1 == ExecuteField(S, f, 0)
         IN  CASE S1.st[f] = "failed" ->
                    [S |-> S1, e |-> S1.err[f], out |-> "throw"]
               [] PromiseReduceWaits(S1, f) ->
                    [S |-> [S1 EXCEPT !.serialNext = i + 1], e |-> 0,
                     out |-> "promise"]
               [] OTHER -> ExecuteFieldsSerially(SetResult(S1, f), i + 1)

\* executeOperation: the root selection set, then the root patches
ExecuteOperation(S) ==
    IF ~cfg.rootType
    THEN [S |-> S, e |-> 0, out |-> "throw"]
    ELSE LET r == IF cfg.op = "mutation"
                  THEN ExecuteFieldsSerially(S, 1)
                  ELSE ExecuteFields(S, Plain(0), 1, 0)
         IN  IF r.out = "throw" THEN r
             ELSE [r EXCEPT !.S = ExecutePatches(r.S, Patches(0), 1)]

\* no result has been built yet
NoResponse == [data |-> "unbuilt", errors |-> FALSE]

\* buildResponse that always lists the errors key
BuildResponseWithErrors(data, errs) == [data |-> data, errors |-> TRUE]

\* buildResponse: { data } without errors, { errors, data } with
BuildResponse(data, errs) == [data |-> data, errors |-> Len(errs) > 0]

\* buildResponse + the `subsequentPayloads.length > 0` test of execute
InitialResult(S) ==
    IF Len(S.subsequentPayloads) > 0 THEN "generator" ELSE "result"

\* execute's onRejected passing the error on instead of building a response
RejectPropagates(S, e) ==
    [S EXCEPT !.rootSt = "null", !.resolvedTo = "rejected"]

\* execute's onRejected handing out the async sequence when records exist
RejectYields(S, e) ==
    [Log(S, 0, e) EXCEPT !.rootSt = "null", !.resolvedTo = InitialResult(S),
                         !.response = BuildResponse("null", Log(S, 0, e).errors)]

\* the reactions of execute's result.then(...)
Resolve(S) ==
    [S EXCEPT !.rootSt = "data", !.resolvedTo = InitialResult(S),
              !.response = BuildResponse("map", S.errors)]
Reject(S, e) ==
    [Log(S, 0, e) EXCEPT !.rootSt = "null", !.resolvedTo = "result",
                         !.response = BuildResponse("null", Log(S, 0, e).errors)]

\* promiseForObject (jsutils), as the assembly of a grouped field set is
\* specified: it completes when all of its fields have, and the first
\* exception of a field aborts it. c is the field that has just settled.
PromiseForObject(S, fs, c) ==
    IF S.st[c] = "failed" THEN "rejected"
    ELSE IF \A j \in 1..Len(fs) : S.st[fs[j]] \in {"value", "null"}
    THEN "resolved"
    ELSE "pending"

\* a root field settled: promiseForObject (query) or the next step of
\* promiseReduce (mutation)
RootSettled(S, c) ==
    IF S.rootSt # "pending" THEN S
    ELSE IF cfg.op = "mutation"
    THEN IF S.st[c] = "failed" THEN Reject(S, S.err[c])
         ELSE LET r == ExecuteFieldsSerially(SetResult(S, c), S.serialNext)
              IN  CASE r.out = "throw" -> Reject(r.S, r.e)
                    [] r.out = "promise" -> r.S
                    [] OTHER -> Resolve(r.S)
    ELSE CASE PromiseForObject(S, Plain(0), c) = "rejected" ->
                 Reject(S, S.err[c])
           [] PromiseForObject(S, Plain(0), c) = "resolved" -> Resolve(S)
           [] OTHER -> S

\* the promise reactions that follow the settlement of field c: the catch of
\* its deferred fragment, or promiseForObject and the handler of its parent
RECURSIVE Up(_, _)
Up(S, c) ==
    IF S.st[c] \notin Settled THEN S
    ELSE IF cfg.deferred[c]
    THEN IF S.st[c] = "failed"
         THEN [S EXCEPT !.recErrors[c] = Append(@, S.err[c]),
                        !.recData[c] = "null"]
         ELSE [S EXCEPT !.recData[c] = "data"]
    ELSE IF Parent[c] = 0 THEN RootSettled(S, c)
    ELSE LET p == Parent[c]
         IN  IF S.st[p] # "assembling" THEN S
             ELSE CASE PromiseForObject(S, Plain(p), c) = "rejected" ->
                          Up(HandleFieldError(S, p, S.err[c], RecOf(p)), p)
                    [] PromiseForObject(S, Plain(p), c) = "resolved" ->
                          Up([S EXCEPT !.st[p] = "value"], p)
                    [] OTHER -> S

\* the generator's variables while SpecExec runs
YieldIdle ==
    /\ recs = <<>>
    /\ jobs = <<>>
    /\ hasReturnedInitialResult = FALSE
    /\ isDone = FALSE
    /\ outstanding = {}
    /\ nextCount = 0
    /\ emitted = <<>>
    /\ retState = "none"
    /\ iter = [state |-> "none", items |-> 0, returnCalls |-> 0]
    /\ inflight = 0

-----------------------------------------------------------------------------
(* SpecExec *)

\* the requests: how many operations the document defines, whether
\* operationName is given and names one of them, whether the variables coerce,
\* whether the schema has a root type for the operation
Requests ==
    {q \in [ops : 0..MaxOps, operationName : {"none", "match", "nomatch"},
            varErrors : BOOLEAN, rootType : BOOLEAN] :
        q.operationName = "match" => q.ops >= 1}

PlainRequest ==
    [ops |-> 1, operationName |-> "none", varErrors |-> FALSE, rootType |-> TRUE]

\* buildExecutionContext returning a context whatever the request
BuildExecutionContextUnchecked(c) == "context"

\* buildExecutionContext: the operation is selected, then the variables coerced
BuildExecutionContext(c) ==
    IF c.operationName = "none" /\ c.ops >= 2 THEN "errors"
    ELSE IF c.operationName = "nomatch" \/ c.ops = 0 THEN "errors"
    ELSE IF c.varErrors THEN "errors"
    ELSE "context"

FieldConfigs ==
    {c \in [op : {"query", "mutation"},
            nonNull : [Fields -> BOOLEAN],
            beh : [Fields -> Behaviours],
            typeOf : [{f \in Fields : IsObject(f)} -> TypeOfs],
            deferred : [Fields -> BOOLEAN]] :
        /\ Cardinality({f \in Fields : c.beh[f] \in AsyncBeh})
             + Cardinality({f \in DOMAIN c.typeOf :
                               c.typeOf[f] \in {"promiseTrue", "promiseFalse"}})
             <= MaxAsync
        /\ Cardinality({f \in Fields : c.beh[f] \in FailBeh})
             + Cardinality({f \in DOMAIN c.typeOf :
                               c.typeOf[f] \in {"false", "promiseFalse"}})
             <= MaxFail
        /\ Cardinality({f \in Fields : c.deferred[f]}) <= MaxDefer
        \* a mutation's root fields are not deferred in this model
        /\ c.op = "mutation" => \A f \in Fields : Parent[f] = 0 => ~c.deferred[f]}

PlainFields ==
    [nonNull |-> [f \in Fields |-> FALSE],
     beh |-> [f \in Fields |-> "value"],
     typeOf |-> [f \in {x \in Fields : IsObject(x)} |-> "none"],
     deferred |-> [f \in Fields |-> FALSE]]

Join(c, q) ==
    [op |-> c.op, nonNull |-> c.nonNull, beh |-> c.beh, typeOf |-> c.typeOf,
     deferred |-> c.deferred, ops |-> q.ops, operationName |-> q.operationName,
     varErrors |-> q.varErrors, rootType |-> q.rootType]

\* every field configuration under the plain request, and every request over
\* the plain field configuration
Configs ==
    {Join(c, PlainRequest) : c \in FieldConfigs}
      \cup {Join([PlainFields EXCEPT !.beh[2] = b] @@ [op |-> o], q) :
               q \in Requests, o \in {"query", "mutation"},
               b \in {"value", "promiseValue"}}

InitExec ==
    /\ cfg \in Configs
    /\ st = [f \in Fields |-> "idle"]
    /\ err = [f \in Fields |-> 0]
    /\ errors = <<>>
    /\ recErrors = [f \in Fields |-> <<>>]
    /\ invoked = <<>>
    /\ subsequentPayloads = <<>>
    /\ recData = [f \in Fields |-> "none"]
    /\ rootSt = "idle"
    /\ serialNext = 0
    /\ returned = "none"
    /\ resolvedTo = "none"
    /\ late = 0
    /\ response = NoResponse
    /\ resultKeys = [m \in Maps |-> <<>>]
    /\ listArgs = NoList
    /\ listResult = NoListResult
    /\ typeArgs = NoType
    /\ typeResult = NoTypeResult
    /\ syncResult = NoSync
    /\ valueArgs = NoValue
    /\ valueResult = NoValueResult
    /\ payloadArgs = <<>>
    /\ payloadResult = <<>>
    /\ YieldIdle

\* the body of execute(args): the state it leaves
ExecuteBody ==
    IF BuildExecutionContext(cfg) = "errors"
    THEN [Cur EXCEPT !.returned = "result", !.errors = <<0>>,
                     !.response = [data |-> "absent", errors |-> TRUE]]
    ELSE LET r == ExecuteOperation(Cur)
         IN  CASE r.out = "throw" ->
                    [Log(r.S, 0, r.e) EXCEPT
                        !.rootSt = "null", !.returned = "result",
                        !.response =
                            BuildResponse("null", Log(r.S, 0, r.e).errors)]
               [] r.out = "promise" ->
                    [r.S EXCEPT !.rootSt = "pending",
                                !.returned = "promise"]
               [] OTHER ->
                    [r.S EXCEPT !.rootSt = "data",
                                !.returned = InitialResult(r.S),
                                !.response =
                                    BuildResponse("map", r.S.errors)]

\* execute(args)
Execute ==
    /\ returned = "none"
    /\ Set(ExecuteBody)

\* executeSync returning whatever execute returned
AssertNothing(result, resp) == [out |-> "return", v |-> resp]

\* `if (isPromise(result) || isAsyncIterable(result)) throw new Error(...)`
AssertSynchronous(result, resp) ==
    IF result \in {"promise", "generator"}
    THEN [out |-> "throw", v |-> NoResponse]
    ELSE [out |-> "return", v |-> resp]

\* executeSync(args)
ExecuteSync ==
    /\ returned = "none"
    /\ \E S \in {ExecuteBody} :
          Set([S EXCEPT !.syncResult = AssertSynchronous(S.returned, S.response)])

\* the promise a resolver returned settles: result.then(completeValue) and the
\* error handler of executeField
ResolverSettles(f) ==
    /\ st[f] = "resolving"
    /\ \E S \in {Up(IF cfg.beh[f] = "promiseReject"
              THEN HandleFieldError(Cur, f, f, RecOf(f))
              ELSE CompleteValue(Cur, f, cfg.beh[f] = "promiseValue", RecOf(f)),
              f)} : Set(S)

\* the promise isTypeOf returned settles (completeObjectValue)
IsTypeOfSettles(f) ==
    /\ st[f] = "typing"
    /\ \E S \in {Up(IF cfg.typeOf[f] = "promiseFalse"
              THEN HandleFieldError(Cur, f, f, RecOf(f))
              ELSE CollectAndExecuteSubfields(Cur, f, RecOf(f)),
              f)} : Set(S)

NextExec ==
    \/ Execute
    \/ \E f \in Fields : ResolverSettles(f)
    \/ \E f \in Fields : IsTypeOfSettles(f)

SpecExec == InitExec /\ [][NextExec]_vars

\* the configurations whose failures are raised by resolvers, with the
\* requests; deferred fragments in queries only
FairConfigs ==
    {c \in Configs :
        /\ \A f \in Fields : c.beh[f] \in {"value", "promiseValue", "throw",
                                            "promiseReject"}
        /\ \A f \in DOMAIN c.typeOf : c.typeOf[f] \in {"none", "promiseTrue"}
        /\ c.op = "mutation" => \A f \in Fields : ~c.deferred[f]}

InitFair ==
    /\ InitExec
    /\ cfg \in FairConfigs

\* the same execution, where every promise a resolver or isTypeOf returned
\* settles
SpecExecFair ==
    /\ InitFair /\ [][NextExec]_vars
    /\ WF_vars(\E f \in Fields : ResolverSettles(f) \/ IsTypeOfSettles(f))

\* the same requests handed to executeSync
NextSync ==
    \/ ExecuteSync
    \/ \E f \in Fields : ResolverSettles(f)
    \/ \E f \in Fields : IsTypeOfSettles(f)

SpecSync == InitFair /\ [][NextSync]_vars

-----------------------------------------------------------------------------
(* Properties of SpecExec *)

Count(s, e) == Cardinality({i \in 1..Len(s) : s[i] = e})

\* how often error e stands in the error logs (the primary one and the records')
Appended(e) ==
    Count(errors, e)
      + Cardinality({x \in Fields \X (1..Cardinality(Fields)) :
                        x[2] <= Len(recErrors[x[1]]) /\ recErrors[x[1]][x[2]] = e})

\* the error log active for field f
ActiveLog(f) == IF RecOf(f) = 0 THEN errors ELSE recErrors[RecOf(f)]

\* the nearest enclosing nullable field of f inside its payload (0: none, the
\* error reaches the payload's data)
RECURSIVE Target(_)
Target(f) ==
    IF cfg.deferred[f] \/ Parent[f] = 0 THEN 0
    ELSE IF ~cfg.nonNull[Parent[f]] THEN Parent[f]
    ELSE Target(Parent[f])

RECURSIVE PayloadOf(_)
PayloadOf(f) ==
    IF cfg.deferred[f] \/ Parent[f] = 0 THEN RecOf(f)
    ELSE IF ~cfg.nonNull[Parent[f]] THEN RecOf(f)
    ELSE PayloadOf(Parent[f])

TargetIsNull(f) ==
    IF Target(f) # 0 THEN st[Target(f)] = "null"
    ELSE IF PayloadOf(f) = 0 THEN rootSt = "null"
    ELSE recData[PayloadOf(f)] = "null"

Bubbled(f) == cfg.nonNull[f] /\ st[f] = "failed"

\* the errors of the non-null failures that bubble to the same place as f's
BubblingWith(f) ==
    {err[g] : g \in {h \in Fields : /\ Bubbled(h)
                                     /\ Target(h) = Target(f)
                                     /\ PayloadOf(h) = PayloadOf(f)}}

Raised(f) ==
    /\ f \in Range(invoked)
    /\ \/ cfg.beh[f] = "throw"
       \/ cfg.beh[f] = "promiseReject" /\ st[f] # "resolving"

\* the other fields of the grouped field set f is executed in
Siblings(f) ==
    IF cfg.deferred[f] THEN {}
    ELSE {s \in Fields \ {f} : Parent[s] = Parent[f] /\ ~cfg.deferred[s]}

\* sibling s was executed and stands at what its own resolver produced
KeepsOwnValue(s) ==
    /\ s \in Range(invoked)
    /\ st[s] # "failed"
    /\ cfg.beh[s] = "value" /\ ~IsObject(s) => st[s] = "value"
    /\ cfg.beh[s] = "null" => st[s] = "null"

\* C2 as stated: when a nullable field raises, one error is appended, the
\* field is null and every sibling of its selection set is executed and keeps
\* its own value.
C2_AsStated ==
    \A f \in Fields :
        ~cfg.nonNull[f] /\ Raised(f) =>
            /\ Appended(f) = 1
            /\ st[f] = "null"
            /\ \A s \in Siblings(f) : KeepsOwnValue(s)

\* C2 amended: when a nullable field raises, one error is appended and the
\* field completes to null; unless a non-null sibling fails (which aborts the
\* selection set), every sibling is executed and keeps its own value.
C2_NullableError ==
    \A f \in Fields :
        ~cfg.nonNull[f] /\ Raised(f) =>
            /\ Appended(f) = 1
            /\ st[f] = "null"
            /\ (\A s \in Siblings(f) : ~(cfg.nonNull[s] /\ st[s] = "failed"))
                  => \A s \in Siblings(f) : KeepsOwnValue(s)

\* a nullable field raised between two siblings that kept their values
C2_Witness ==
    /\ ~cfg.nonNull[3] /\ Raised(3) /\ st[3] = "null" /\ Appended(3) = 1
    /\ st[4] = "value" /\ st[1] = "value" /\ st[2] = "value"
    /\ rootSt = "data"

\* C3: in a mutation the resolver of a root field is invoked only after the
\* execution of the root field before it has settled (value, or null from
\* its error).
C3_SerialOrder ==
    cfg.op = "mutation" =>
        \A i \in 1..(Len(Plain(0)) - 1) :
            Plain(0)[i + 1] \in Range(invoked) =>
                st[Plain(0)[i]] \in {"value", "null"}

\* the first root field of a mutation was pending when execute returned, and
\* the second root field has been invoked since
C3_Witness ==
    /\ cfg.op = "mutation"
    /\ returned = "promise"
    /\ invoked[1] = Plain(0)[1]
    /\ Plain(0)[2] \in Range(invoked)
    /\ \E f \in Fields : Parent[f] = Plain(0)[1] /\ cfg.beh[f] \in AsyncBeh

NoResolverFuture == \A f \in Range(invoked) : cfg.beh[f] \notin AsyncBeh
NoIsTypeOfFuture ==
    \A f \in Range(invoked) :
        IsObject(f) /\ cfg.beh[f] = "value" =>
            cfg.typeOf[f] \notin {"promiseTrue", "promiseFalse"}
NoDirectiveFired == \A f \in Fields : recData[f] = "none"

Failed(f) ==
    /\ f \in Range(invoked)
    /\ st[f] \notin {"idle", "resolving", "typing"}
    /\ \/ cfg.beh[f] \in {"throw", "promiseReject"}
       \/ cfg.beh[f] \in {"null", "promiseNull"} /\ cfg.nonNull[f]
       \/ /\ IsObject(f) /\ cfg.beh[f] \in {"value", "promiseValue"}
          /\ cfg.typeOf[f] \in {"false", "promiseFalse"}

C12_ResponseKeys ==
    [][response' # response =>
          /\ response'.data # "absent" <=> rootSt' \in {"data", "null"}
          /\ response'.data = "null" <=> rootSt' = "null"
          /\ response'.errors <=> Len(errors') > 0]_vars

\* a result with data null and the errors key, after a non-null failure
C12_Witness ==
    /\ response = [data |-> "null", errors |-> TRUE]
    /\ \E f \in Fields : Bubbled(f) /\ Target(f) = 0 /\ errors = <<err[f]>>

Grouped(m) ==
    IF m <= Cardinality(Fields) THEN Plain(m) ELSE <<m - Cardinality(Fields)>>

IsPrefix(s, t) == Len(s) <= Len(t) /\ s = SubSeq(t, 1, Len(s))

\* C14: the keys of every result map stand in the order of the grouped field
\* set at every moment, and a map that was produced holds all of them.
C14_KeyOrder ==
    /\ \A m \in Maps : IsPrefix(resultKeys[m], Grouped(m))
    /\ rootSt = "data" => resultKeys[0] = Plain(0)
    /\ \A f \in Fields :
          IsObject(f) /\ st[f] = "value" => resultKeys[f] = Plain(f)

\* a later field of the root selection set settled while an earlier one is
\* still pending
C14_Witness ==
    /\ Len(Plain(0)) = 2
    /\ st[Plain(0)[1]] \in Pending /\ st[Plain(0)[2]] = "value"
    /\ cfg.beh[Plain(0)[2]] = "promiseValue"
    /\ resultKeys[0] = Plain(0)

\* the selection sets executed in parallel: the sub-selections, and the root
\* one of a query
ParallelSets == {p \in {0} \cup {f \in Fields : IsObject(f)} :
                    p = 0 => cfg.op = "query"}

\* the fields of selection set p whose resolver was invoked, in invocation order
Launched(p) == SelectSeq(invoked, LAMBDA f : f \in Range(Plain(p)))

\* C21 as stated: once the first field of a selection set executed in parallel
\* was invoked, every field of the set was, in document order.
C21_AsStated ==
    \A p \in ParallelSets : Launched(p) # <<>> => Launched(p) = Plain(p)

\* C21 amended: the fields are invoked in document order, each once, and all
\* of them unless one with a non-null type failed before it returned; then the
\* invoked fields are those up to the failed one.
C21_LaunchOrder ==
    \A p \in ParallelSets :
        /\ IsPrefix(Launched(p), Plain(p))
        /\ Launched(p) # <<>> /\ Launched(p) # Plain(p) =>
              LET f == Launched(p)[Len(Launched(p))]
              IN  /\ st[f] = "failed" /\ cfg.nonNull[f]
                  /\ cfg.beh[f] \notin AsyncBeh
        /\ Launched(p) # <<>> /\ (\A f \in Range(Plain(p)) : ~cfg.nonNull[f]) =>
              Launched(p) = Plain(p)

\* the first field of the root selection set raised under a nullable type, the
\* second returned a promise, and both were invoked before any settled
C21_Witness ==
    /\ cfg.op = "query" /\ Len(Plain(0)) = 2
    /\ cfg.beh[Plain(0)[1]] = "throw" /\ st[Plain(0)[1]] = "null"
    /\ st[Plain(0)[2]] = "resolving"
    /\ Launched(0) = Plain(0)

Originates(f) ==
    /\ f \in Range(invoked)
    /\ \/ cfg.beh[f] \in {"throw", "promiseReject"}
       \/ cfg.beh[f] \in {"null", "promiseNull"} /\ cfg.nonNull[f]
       \/ /\ IsObject(f) /\ cfg.beh[f] \in {"value", "promiseValue"}
          /\ cfg.typeOf[f] \in {"false", "promiseFalse"}

RECURSIVE Within(_, _)
Within(f, g) == f # 0 /\ (f = g \/ Within(Parent[f], g))

\* the errors of every log: error f is the error located at the path of
\* field f, error 0 an error without a path
Logged == Range(errors) \cup UNION {Range(recErrors[d]) : d \in Fields}

\* C27 as stated: every error of the primary log and of the records' logs is
\* located at the field that raised it, and a failure that bubbles carries
\* the error of the field that raised it.
C27_AsStated ==
    /\ \A e \in Logged : e \in Fields /\ Originates(e)
    /\ \A g \in Fields :
          st[g] = "failed" => Originates(err[g]) /\ Within(err[g], g)

\* C27 amended: every error of a log is located at the field that raised it
\* and stands in the log of the payload that field is executed in, except
\* the errors execute reports for the request as a whole (a refused request,
\* an operation type the schema lacks), which have no path and stand alone
\* in the primary log; a failure that bubbles carries the error of the field
\* that raised it.
C27_ErrorPaths ==
    /\ \A e \in Range(errors) \ {0} :
          e \in Fields /\ Originates(e) /\ RecOf(e) = 0
    /\ 0 \in Range(errors) =>
          /\ errors = <<0>>
          /\ BuildExecutionContext(cfg) = "errors" \/ ~cfg.rootType
          /\ invoked = <<>>
    /\ \A d \in Fields : \A e \in Range(recErrors[d]) :
          e \in Fields /\ Originates(e) /\ RecOf(e) = d
    /\ \A g \in Fields :
          st[g] = "failed" => Originates(err[g]) /\ Within(err[g], g)

\* the error raised at c bubbled through its non-null parent a to the root
\* and stands in the primary log under the path of c
C27_Witness ==
    /\ cfg.nonNull[1] /\ cfg.nonNull[3]
    /\ cfg.beh[3] = "promiseReject"
    /\ st[1] = "failed" /\ err[1] = 3
    /\ rootSt = "null"
    /\ errors = <<3>>

\* C31: once the initial result has been built (execute returned it, or the
\* promise it returned resolved), no error is pushed onto the primary error
\* log, which is the errors list of that result.
C31_NoLateError ==
    Delivered(Cur) => late = 0

\* a root field of the serial selection set whose non-null type failed
FailedRoot(f) ==
    f \in Range(Plain(0)) /\ cfg.nonNull[f] /\ st[f] = "failed"

\* C35: in a mutation, when a root field of non-null type has failed, no
\* root field after it has been invoked and the data of the result is null;
\* and from then on no step invokes the resolver of a root field.
C35_SerialAbort ==
    /\ [](cfg.op = "mutation" =>
            \A i \in 1..Len(Plain(0)) :
                FailedRoot(Plain(0)[i]) =>
                    /\ rootSt = "null"
                    /\ \A j \in (i + 1)..Len(Plain(0)) :
                          Plain(0)[j] \notin Range(invoked))
    /\ [][cfg.op = "mutation" /\ (\E f \in Fields : FailedRoot(f)) =>
            \A g \in Fields :
                Parent[g] = 0 => Count(invoked', g) = Count(invoked, g)]_vars

\* the promise of the first root field of a mutation, of non-null type, was
\* rejected: the second root field was never invoked and the promise of
\* execute resolved with data null
C35_Witness ==
    /\ cfg.op = "mutation"
    /\ Plain(0) = <<1, 2>>
    /\ cfg.beh[1] = "promiseReject" /\ FailedRoot(1)
    /\ 2 \notin Range(invoked)
    /\ returned = "promise" /\ resolvedTo = "result"
    /\ response = [data |-> "null", errors |-> TRUE]

\* C36: when the root execution fails (executeOperation raised, or the
\* promise it returned was rejected), what execute delivers is the plain
\* result with data null and the error, never the async sequence, whatever
\* records the execution has registered.
C36_PlainOnRootFailure ==
    rootSt = "null" =>
        /\ returned = "result" \/ (returned = "promise" /\ resolvedTo = "result")
        /\ response = [data |-> "null", errors |-> TRUE]
        /\ Len(errors) > 0

\* the promise of the root selection set was rejected while a record was
\* registered, and execute's promise resolved with the plain result
C36_Witness ==
    /\ rootSt = "null"
    /\ Len(subsequentPayloads) > 0
    /\ returned = "promise" /\ resolvedTo = "result"
    /\ response = [data |-> "null", errors |-> TRUE]

\* C24: executeSync returns the very result execute built when execute
\* returned a plain result, and raises instead of returning whenever execute
\* returned a promise or an async generator.
C24_ExecuteSync ==
    returned # "none" =>
        /\ returned = "result" =>
              syncResult = [out |-> "return", v |-> response]
        /\ returned \in {"promise", "generator"} =>
              syncResult = [out |-> "throw", v |-> NoResponse]

\* executeSync raised for a request with a deferred fragment whose resolvers
\* are all synchronous
C24_Witness ==
    /\ returned = "generator"
    /\ syncResult.out = "throw"
    /\ \A f \in Fields : cfg.beh[f] = "value"

-----------------------------------------------------------------------------
(* SpecYield: the generator yieldSubsequentPayloads builds.                *)
(*                                                                         *)
(* A record's data promise settles once its own work is done and the data  *)
(* promise of its parentContext has settled.  race() attaches one reaction *)
(* per registered record, in registry order; the reactions of a settled    *)
(* promise run first-in first-out (the job queue `jobs`).                  *)

MaxRecords == 2     \* records registered before the generator is built
MaxItems == 2     \* items the source async iterator produces
MaxNext == 4     \* next() calls of the consumer
MaxLate == 1     \* fragments registered by an abandoned selection set

Kinds == {"defer", "item", "iter"}

Max(S) == CHOOSE x \in S : \A y \in S : y <= x

\* a splice that removes nothing
RemoveNothing(s, i) == s

RemoveAt(s, i) == SubSeq(s, 1, i - 1) \o SubSeq(s, i + 1, Len(s))
IndexOf(s, x) == IF x \in Range(s) THEN Min0(s, x) ELSE 0

\* new AsyncPayloadRecord({ label, path, iterator }) + addDataPromise
\*   kind   defer: executeDeferredFragment, item: executeStreamField,
\*          iter: executeStreamIterator (the record carries the iterator)
\*   parent the parentContext whose dataPromise the record is chained after
\*   index  the last segment of the path of a streamed item
\*   pred   the record executeStreamIterator's next(index - 1) created
NewRecord(kind, parent, index, pred) ==
    [kind |-> kind, parent |-> parent, index |-> index, pred |-> pred,
     isCompletedIterator |-> FALSE, asyncItem |-> FALSE,
     phase |-> IF kind = "iter" THEN "waiting" ELSE "pending",
     reactions |-> <<>>]

RECURSIVE Top(_, _, _)
Top(par, r, k) == IF r = 0 \/ k = 0 THEN r ELSE Top(par, par[r], k - 1)

\* the registries execute() can hand to the generator: deferred fragments
\* (nested ones before or after their parent), the records of one streamed
\* list (chained, in index order) or the first record of a streamed iterator
Shapes(n) ==
    {s \in [1..n -> [kind : Kinds, parent : 0..n]] :
        /\ \A r \in 1..n : Top([x \in 1..n |-> s[x].parent], r, n) = 0
        /\ \A r \in 1..n :
              LET p == s[r].parent
                  earlier == {q \in 1..(r - 1) : s[q].kind = "item"}
              IN  CASE s[r].kind = "item" ->
                         IF earlier # {} THEN p = Max(earlier)
                         ELSE (p = 0 \/ s[p].kind = "defer")
                    [] s[r].kind = "iter" ->
                         /\ (p = 0 \/ s[p].kind = "defer")
                         /\ \A q \in (1..n) \ {r} : s[q].kind = "defer"
                    [] OTHER ->
                         \/ p = 0
                         \/ s[p].kind = "defer"
                         \/ s[p].kind = "item" /\ p < r}

ShapeRecord(s, r) ==
    LET earlier == {q \in 1..(r - 1) : s[q].kind = "item"}
    IN  NewRecord(s[r].kind, s[r].parent,
                  IF s[r].kind = "item" THEN Cardinality(earlier) ELSE 0, 0)

\* the execution's variables while SpecYield runs
ExecIdle ==
    /\ cfg = [op |-> "query",
              nonNull |-> [f \in Fields |-> FALSE],
              beh |-> [f \in Fields |-> "value"],
              typeOf |-> [f \in {x \in Fields : IsObject(x)} |-> "none"],
              deferred |-> [f \in Fields |-> FALSE],
              ops |-> 1, operationName |-> "none", varErrors |-> FALSE,
              rootType |-> TRUE]
    /\ st = [f \in Fields |-> "idle"]
    /\ err = [f \in Fields |-> 0]
    /\ errors = <<>>
    /\ recErrors = [f \in Fields |-> <<>>]
    /\ invoked = <<>>
    /\ recData = [f \in Fields |-> "none"]
    /\ rootSt = "idle"
    /\ serialNext = 0
    /\ returned = "none"
    /\ resolvedTo = "none"
    /\ late = 0
    /\ response = NoResponse
    /\ resultKeys = [m \in Maps |-> <<>>]
    /\ listArgs = NoList
    /\ listResult = NoListResult
    /\ typeArgs = NoType
    /\ typeResult = NoTypeResult
    /\ syncResult = NoSync
    /\ valueArgs = NoValue
    /\ valueResult = NoValueResult
    /\ payloadArgs = <<>>
    /\ payloadResult = <<>>

InitYield ==
    /\ \E n \in 1..MaxRecords : \E s \in Shapes(n) :
          recs = [r \in 1..n |-> ShapeRecord(s, r)]
    /\ subsequentPayloads = [r \in 1..Len(recs) |-> r]
    /\ jobs = <<>>
    /\ hasReturnedInitialResult = FALSE
    /\ isDone = FALSE
    /\ outstanding = {}
    /\ nextCount = 0
    /\ emitted = <<>>
    /\ retState = "none"
    /\ iter = [state |-> IF \E r \in 1..Len(recs) : recs[r].kind = "iter"
                         THEN "live" ELSE "none",
               items |-> 0, returnCalls |-> 0]
    /\ inflight \in 0..MaxLate
    /\ inflight > 0 => \A r \in 1..Len(recs) : recs[r].kind = "defer"
    /\ ExecIdle

\* what a next() call resolved with
Payload(kind, rec, hasNext, call) ==
    [kind |-> kind, rec |-> rec, hasNext |-> hasNext, call |-> call,
     afterReturn |-> retState \in {"returned", "thrown"}]

\* hasNext computed before the record is spliced out of the registry
HasNextBeforeSplice(remaining) == Len(remaining) + 1 > 0

\* `hasNext: exeContext.subsequentPayloads.length > 0`, after the splice
HasNext(remaining) == Len(remaining) > 0

\* a resolved race ignores its other reactions (`if (resolved) return`)
Purge(js, c) == SelectSeq(js, LAMBDA j : j[1] # c)
Unhook(rs, c) ==
    [r \in DOMAIN rs |->
        [rs[r] EXCEPT !.reactions = SelectSeq(@, LAMBDA x : x # c)]]

\* race(): subsequentPayloads.forEach(record => record.dataPromise.then(...))
AttachJobs(c, sp, rs) ==
    LET ready == SelectSeq(sp, LAMBDA r : rs[r].phase = "settled")
    IN  [i \in 1..Len(ready) |-> <<c, ready[i]>>]
AttachNoReactions(c, sp, rs) == rs
AttachReactions(c, sp, rs) ==
    [r \in DOMAIN rs |->
        IF r \in Range(sp) /\ rs[r].phase # "settled"
        THEN [rs[r] EXCEPT !.reactions = Append(@, c)]
        ELSE rs[r]]

\* race() for the next() call c
Race(c, sp, js, rs) ==
    IF Len(sp) = 0
    THEN /\ emitted' = Append(emitted, Payload("final", 0, FALSE, c))
         /\ outstanding' = outstanding \ {c}
         /\ jobs' = js
         /\ recs' = rs
    ELSE /\ emitted' = emitted
         /\ outstanding' = outstanding \cup {c}
         /\ jobs' = js \o AttachJobs(c, sp, rs)
         /\ recs' = AttachReactions(c, sp, rs)

\* a reaction that takes no record for a completed iterator
NeverCompletedIterator(rs, r) == FALSE

\* `if (asyncPayloadRecord.isCompletedIterator)` after the splice
IsCompletedIterator(rs, r) == rs[r].isCompletedIterator

\* the reaction race() attached to a record's data promise runs
RunJob ==
    /\ jobs # <<>>
    /\ LET c == Head(jobs)[1]
           r == Head(jobs)[2]
           js == Purge(Tail(jobs), c)
           rs == Unhook(recs, c)
       IN  IF Len(subsequentPayloads) = 0
           THEN /\ emitted' = Append(emitted, Payload("done", 0, FALSE, c))
                /\ outstanding' = outstanding \ {c}
                /\ jobs' = js
                /\ recs' = rs
                /\ subsequentPayloads' = subsequentPayloads
           ELSE IF r \notin Range(subsequentPayloads)
           THEN /\ Race(c, subsequentPayloads, js, rs)
                /\ subsequentPayloads' = subsequentPayloads
           ELSE LET sp1 == RemoveAt(subsequentPayloads,
                                    IndexOf(subsequentPayloads, r))
                IN  /\ subsequentPayloads' = sp1
                    /\ IF IsCompletedIterator(rs, r)
                       THEN Race(c, sp1, js, rs)
                       ELSE /\ emitted' = Append(emitted,
                                 Payload("patch", r, HasNext(sp1), c))
                            /\ outstanding' = outstanding \ {c}
                            /\ jobs' = js
                            /\ recs' = rs
    /\ UNCHANGED <<hasReturnedInitialResult, isDone, nextCount, retState,
                   iter, inflight, execVars>>

\* a next() that never takes the branch of the initial result
NeverFirstCall(returnedInitial) == FALSE

\* `if (!_hasReturnedInitialResult)`
IsFirstCall(returnedInitial) == ~returnedInitial

\* next()
NextCall ==
    /\ nextCount < MaxNext
    /\ nextCount' = nextCount + 1
    /\ IF IsFirstCall(hasReturnedInitialResult)
       THEN /\ hasReturnedInitialResult' = TRUE
            /\ emitted' = Append(emitted,
                  Payload("initial", 0, TRUE, nextCount + 1))
            /\ UNCHANGED <<jobs, recs, outstanding>>
       ELSE IF Len(subsequentPayloads) = 0 \/ isDone
       THEN /\ emitted' = Append(emitted,
                  Payload("done", 0, FALSE, nextCount + 1))
            /\ UNCHANGED <<jobs, recs, outstanding, hasReturnedInitialResult>>
       ELSE /\ Race(nextCount + 1, subsequentPayloads, jobs, recs)
            /\ UNCHANGED hasReturnedInitialResult
    /\ UNCHANGED <<subsequentPayloads, isDone, retState, iter, inflight,
                   execVars>>

\* next() called by a consumer that awaits each result before the next call
CallNext ==
    /\ outstanding = {}
    /\ NextCall

\* return() / throw(error) up to their await: iterator.return() per record
CallReturn(how) ==
    /\ retState = "none"
    /\ retState' = how
    /\ iter' = [iter EXCEPT !.returnCalls = @ +
                  Cardinality({i \in 1..Len(subsequentPayloads) :
                                  recs[subsequentPayloads[i]].kind = "iter"})]
    /\ UNCHANGED <<recs, jobs, hasReturnedInitialResult, isDone, outstanding,
                   nextCount, emitted, inflight, subsequentPayloads, execVars>>

\* return() / throw(error) after their await
ReturnCompletes ==
    /\ retState \in {"returning", "throwing"}
    /\ retState' = IF retState = "returning" THEN "returned" ELSE "thrown"
    /\ isDone' = TRUE
    /\ UNCHANGED <<recs, jobs, hasReturnedInitialResult, outstanding,
                   nextCount, emitted, iter, inflight, subsequentPayloads,
                   execVars>>

\* the data promise of record r settles
SettleGuard(r) ==
    /\ recs[r].phase \in {"pending", "ready"}
    /\ recs[r].parent # 0 => recs[recs[r].parent].phase = "settled"
    /\ recs[r].pred # 0 =>
          \/ recs[recs[r].pred].phase = "settled"
          \/ recs[recs[r].pred].asyncItem /\ ~recs[r].asyncItem

Settle(r) ==
    /\ SettleGuard(r)
    /\ recs' = [recs EXCEPT ![r].phase = "settled", ![r].reactions = <<>>]
    /\ jobs' = jobs \o [i \in 1..Len(recs[r].reactions) |->
                            <<recs[r].reactions[i], r>>]
    /\ UNCHANGED <<hasReturnedInitialResult, isDone, outstanding, nextCount,
                   emitted, retState, iter, inflight, subsequentPayloads,
                   execVars>>

\* executeStreamIterator's next(index + 1)
PushNext(rs, r) ==
    Append(rs, NewRecord("iter", rs[r].parent, rs[r].index + 1, r))

\* a record marked when iterator.next() rejects as well
MarksCompletedOnFailure(outcome) == outcome \in {"done", "reject"}

\* asyncPayloadRecord.setIsCompletedIterator(): only in the `if (done)` branch
MarksCompleted(outcome) == outcome = "done"

\* iterator.next() of record r settles
IteratorNext(r, outcome) ==
    /\ recs[r].kind = "iter"
    /\ recs[r].phase = "waiting"
    /\ outcome \in {"item", "itemAsync", "itemError"} =>
          iter.items < MaxItems /\ iter.returnCalls = 0
    /\ outcome = "reject" => iter.returnCalls = 0
    /\ CASE outcome \in {"done", "reject"} ->
              /\ recs' = [recs EXCEPT
                             ![r].isCompletedIterator = MarksCompleted(outcome),
                             ![r].phase = "ready"]
              /\ iter' = [iter EXCEPT !.state = IF outcome = "done"
                                                THEN "over" ELSE "failed"]
              /\ UNCHANGED subsequentPayloads
         [] outcome = "item" ->
              /\ recs' = PushNext([recs EXCEPT ![r].phase = "ready"], r)
              /\ subsequentPayloads' = Append(subsequentPayloads, Len(recs) + 1)
              /\ iter' = [iter EXCEPT !.items = @ + 1]
         [] outcome = "itemAsync" ->
              /\ recs' = [recs EXCEPT ![r].phase = "completing",
                                      ![r].asyncItem = TRUE]
              /\ iter' = [iter EXCEPT !.items = @ + 1]
              /\ UNCHANGED subsequentPayloads
         [] outcome = "itemError" ->
              /\ recs' = [recs EXCEPT ![r].phase = "ready"]
              /\ iter' = [iter EXCEPT !.items = @ + 1, !.state = "abandoned"]
              /\ UNCHANGED subsequentPayloads
    /\ UNCHANGED <<jobs, hasReturnedInitialResult, isDone, outstanding,
                   nextCount, emitted, retState, inflight, execVars>>

\* the promise completeValue returned for the item of record r settles
ItemCompletes(r, ok) ==
    /\ recs[r].phase = "completing"
    /\ IF ok
       THEN /\ recs' = PushNext([recs EXCEPT ![r].phase = "ready"], r)
            /\ subsequentPayloads' = Append(subsequentPayloads, Len(recs) + 1)
            /\ iter' = iter
       ELSE /\ recs' = [recs EXCEPT ![r].phase = "ready"]
            /\ iter' = [iter EXCEPT !.state = "abandoned"]
            /\ UNCHANGED subsequentPayloads
    /\ UNCHANGED <<jobs, hasReturnedInitialResult, isDone, outstanding,
                   nextCount, emitted, retState, inflight, execVars>>

\* a field of a selection set whose assembly was already rejected completes
\* and registers the deferred fragment of its sub-selection
LateRegister ==
    /\ inflight > 0
    /\ inflight' = inflight - 1
    /\ recs' = Append(recs, NewRecord("defer", 0, 0, 0))
    /\ subsequentPayloads' = Append(subsequentPayloads, Len(recs) + 1)
    /\ UNCHANGED <<jobs, hasReturnedInitialResult, isDone, outstanding,
                   nextCount, emitted, retState, iter, execVars>>

NextYield ==
    \/ CallNext
    \/ RunJob
    \/ \E how \in {"returning", "throwing"} : CallReturn(how)
    \/ ReturnCompletes
    \/ \E r \in 1..Len(recs) : Settle(r)
    \/ \E r \in 1..Len(recs) :
          \E outcome \in {"done", "item", "itemAsync", "itemError", "reject"} :
             IteratorNext(r, outcome)
    \/ \E r \in 1..Len(recs) : \E ok \in BOOLEAN : ItemCompletes(r, ok)
    \/ LateRegister

SpecYield == InitYield /\ [][NextYield]_vars

(***************************************************************************)
(* The generator drained by a consumer that calls next(), awaits the       *)
(* result, and calls again until a result says done (`for await`), never   *)
(* return() or throw(). Every reaction that is queued runs, every data     *)
(* promise that can settle does, and the source iterator answers every     *)
(* next() it was sent.                                                     *)
(***************************************************************************)
\* next() calls of the draining consumer: the initial result, at most one
\* call per record ever registered, and the calls that find the registry empty
MaxDrain == MaxRecords + MaxItems + MaxLate + 3

\* a next() call of the consumer resolved with done: true
DoneReceived == \E i \in 1..Len(emitted) : emitted[i].kind = "done"

\* next() called by the draining consumer
DrainNext ==
    /\ outstanding = {}
    /\ ~DoneReceived
    /\ nextCount < MaxDrain
    /\ nextCount' = nextCount + 1
    /\ IF IsFirstCall(hasReturnedInitialResult)
       THEN /\ hasReturnedInitialResult' = TRUE
            /\ emitted' = Append(emitted,
                  Payload("initial", 0, TRUE, nextCount + 1))
            /\ UNCHANGED <<jobs, recs, outstanding>>
       ELSE IF Len(subsequentPayloads) = 0 \/ isDone
       THEN /\ emitted' = Append(emitted,
                  Payload("done", 0, FALSE, nextCount + 1))
            /\ UNCHANGED <<jobs, recs, outstanding, hasReturnedInitialResult>>
       ELSE /\ Race(nextCount + 1, subsequentPayloads, jobs, recs)
            /\ UNCHANGED hasReturnedInitialResult
    /\ UNCHANGED <<subsequentPayloads, isDone, retState, iter, inflight,
                   execVars>>

DataPromiseSettlesDrain == \E r \in 1..Len(recs) : Settle(r)

IteratorAnswers ==
    \E r \in 1..Len(recs) :
       \E outcome \in {"done", "item", "itemAsync", "itemError", "reject"} :
          IteratorNext(r, outcome)

ItemSettles == \E r \in 1..Len(recs) : \E ok \in BOOLEAN : ItemCompletes(r, ok)

NextDrain ==
    \/ DrainNext
    \/ RunJob
    \/ DataPromiseSettlesDrain
    \/ IteratorAnswers
    \/ ItemSettles
    \/ LateRegister

SpecDrain ==
    /\ InitYield
    /\ [][NextDrain]_vars
    /\ WF_vars(DrainNext)
    /\ WF_vars(RunJob)
    /\ WF_vars(DataPromiseSettlesDrain)
    /\ WF_vars(IteratorAnswers)
    /\ WF_vars(ItemSettles)
    /\ WF_vars(LateRegister)

\* C34: when every data promise settles, the records are finitely many and
\* the consumer calls next() one call at a time, every call resolves, some
\* call resolves with done: true, and the registry is empty when it does.
C34_Drains ==
    /\ \A c \in 1..MaxDrain : (c \in outstanding) ~> (c \notin outstanding)
    /\ <>DoneReceived
    /\ [][(/\ Len(emitted') = Len(emitted) + 1
           /\ emitted'[Len(emitted')].kind = "done")
              => Len(subsequentPayloads') = 0]_vars

\* the consumer received two patches, then the reaction of its next call
\* took the record of the finished iterator and found the registry empty,
\* and the call after that resolved with done: true
C34_Witness ==
    /\ DoneReceived
    /\ Len(subsequentPayloads) = 0
    /\ outstanding = {}
    /\ Cardinality({i \in 1..Len(emitted) : emitted[i].kind = "patch"}) >= 2
    /\ \E i \in 1..Len(emitted) : emitted[i].kind = "final"
    /\ \E r \in 1..Len(recs) : recs[r].isCompletedIterator

\* the same generator under a consumer that calls next() without awaiting
\* the calls it has outstanding
NextConcurrent ==
    \/ NextCall
    \/ RunJob
    \/ \E how \in {"returning", "throwing"} : CallReturn(how)
    \/ ReturnCompletes
    \/ \E r \in 1..Len(recs) : Settle(r)
    \/ \E r \in 1..Len(recs) :
          \E outcome \in {"done", "item", "itemAsync", "itemError", "reject"} :
             IteratorNext(r, outcome)
    \/ \E r \in 1..Len(recs) : \E ok \in BOOLEAN : ItemCompletes(r, ok)
    \/ LateRegister

SpecConcurrent == InitYield /\ [][NextConcurrent]_vars

-----------------------------------------------------------------------------
(* Properties of SpecYield *)

IsPayload(x) == x.kind \in {"initial", "patch", "final"}
IsPatch(x) == x.kind = "patch"
IsStreamPatch(x) == x.kind = "patch" /\ recs[x.rec].kind \in {"item", "iter"}

\* C4: the sequence is terminated by a payload with hasNext false: no payload
\* follows a payload that carries hasNext false (so at most one carries it),
\* and a consumer that was told done without having cancelled has received one.
C4_SingleTerminal ==
    /\ \A i \in 1..Len(emitted) :
          IsPayload(emitted[i]) /\ ~emitted[i].hasNext =>
              \A j \in (i + 1)..Len(emitted) : emitted[j].kind = "done"
    /\ \A j \in 1..Len(emitted) :
          emitted[j].kind = "done" /\ ~emitted[j].afterReturn =>
              \E i \in 1..(j - 1) : IsPayload(emitted[i]) /\ ~emitted[i].hasNext

\* C5: a record registered with a parent record is yielded as a patch only
\* after the patch of its parent has been yielded.
C5_ParentFirst ==
    \A i \in 1..Len(emitted) :
        IsPatch(emitted[i]) /\ recs[emitted[i].rec].parent # 0 =>
            \E j \in 1..(i - 1) :
                IsPatch(emitted[j]) /\ emitted[j].rec = recs[emitted[i].rec].parent

\* C6: the patches yielded for the streamed list carry strictly increasing
\* list indices, in the order they are yielded.
C6_IndexMonotone ==
    \A i, j \in 1..Len(emitted) :
        i < j /\ IsStreamPatch(emitted[i]) /\ IsStreamPatch(emitted[j]) =>
            recs[emitted[i].rec].index < recs[emitted[j].rec].index

\* C7: whenever a patch is yielded, its record is removed from
\* subsequentPayloads in that step and the patch has hasNext true exactly when
\* a record remains after the removal.
C7_HasNext ==
    [][emitted' # emitted /\ IsPatch(emitted'[Len(emitted')]) =>
          LET x == emitted'[Len(emitted')]
          IN  /\ x.hasNext <=> Len(subsequentPayloads') > 0
              /\ x.rec \in Range(subsequentPayloads)
              /\ x.rec \notin Range(subsequentPayloads')]_vars

\* one patch was yielded with records remaining, a later one with none
C7_Witness ==
    \E i, j \in 1..Len(emitted) :
        /\ i < j
        /\ IsPatch(emitted[i]) /\ emitted[i].hasNext
        /\ IsPatch(emitted[j]) /\ ~emitted[j].hasNext
        /\ subsequentPayloads = <<>>

\* C8: once return() has completed, the source async iterator of the streamed
\* list has had its return() called exactly once.
C8_ReturnOnce ==
    retState = "returned" /\ iter.state # "none" => iter.returnCalls = 1

\* C9: every next() made after return() or throw() has completed resolves
\* with done true and no payload.
C9_DoneAfterReturn ==
    \A i \in 1..Len(emitted) :
        emitted[i].afterReturn => emitted[i].kind = "done"

\* C16: once a payload with hasNext false has been yielded the registry is
\* empty and stays so: no record is appended after the terminal payload.
C16_ClosedAfterTerminal ==
    (\E i \in 1..Len(emitted) : IsPayload(emitted[i]) /\ ~emitted[i].hasNext)
        => subsequentPayloads = <<>>

\* C17: the first next() resolves at once with the initial result, hasNext
\* true and done false, and attaches no reaction to any record; no later
\* next() resolves with the initial result, and only later calls race.
C17_FirstNext ==
    [][/\ nextCount' = nextCount + 1 =>
            IF nextCount = 0
            THEN /\ emitted' = Append(emitted, Payload("initial", 0, TRUE, 1))
                 /\ jobs' = jobs /\ recs' = recs /\ outstanding' = outstanding
            ELSE \A i \in 1..Len(emitted') :
                     emitted'[i].call = nextCount' => emitted'[i].kind # "initial"
       /\ \A j \in 1..Len(jobs') : jobs'[j][1] >= 2
       /\ \A r \in 1..Len(recs') :
             \A k \in 1..Len(recs'[r].reactions) : recs'[r].reactions[k] >= 2]_vars

\* the first next() has resolved with the initial result while no registered
\* record has settled; a second one is racing them
C17_Witness ==
    /\ nextCount = 2 /\ outstanding = {2}
    /\ Len(emitted) = 1 /\ emitted[1] = [kind |-> "initial", rec |-> 0,
                                         hasNext |-> TRUE, call |-> 1,
                                         afterReturn |-> FALSE]
    /\ subsequentPayloads # <<>>
    /\ \A r \in Range(subsequentPayloads) :
          recs[r].phase # "settled" /\ recs[r].reactions = <<2>>

\* C18: no patch is ever yielded for a record marked isCompletedIterator;
\* when the reaction of such a record runs, the record leaves the registry and
\* the same next() call races the remaining records (or, with none left,
\* resolves with the payload that only says hasNext false).
C18_SkipCompleted ==
    [][/\ \A i \in 1..Len(emitted') :
             IsPatch(emitted'[i]) => ~recs'[emitted'[i].rec].isCompletedIterator
       /\ Len(subsequentPayloads') < Len(subsequentPayloads) =>
             LET c == Head(jobs)[1]
                 r == Head(jobs)[2]
             IN  /\ r \in Range(subsequentPayloads)
                 /\ subsequentPayloads' =
                        RemoveAt(subsequentPayloads, IndexOf(subsequentPayloads, r))
                 /\ recs[r].isCompletedIterator =>
                       IF subsequentPayloads' = <<>>
                       THEN emitted' = Append(emitted, Payload("final", 0, FALSE, c))
                       ELSE /\ emitted' = emitted
                            /\ c \in outstanding'
                            /\ \A q \in Range(subsequentPayloads') :
                                  \/ c \in Range(recs'[q].reactions)
                                  \/ <<c, q>> \in Range(jobs')]_vars

\* the record of a completed iterator has left the registry without a patch,
\* and the patch of another record was yielded after it
C18_Witness ==
    \E r \in 1..Len(recs) :
        /\ recs[r].isCompletedIterator
        /\ recs[r].phase = "settled"
        /\ r \notin Range(subsequentPayloads)
        /\ \A i \in 1..Len(emitted) : emitted[i].rec # r
        /\ \E i \in 1..Len(emitted) : IsPatch(emitted[i])

\* the record executeStreamIterator registered last for the streamed list
FinalRecord == Max({r \in 1..Len(recs) : recs[r].kind = "iter"})

\* C19 as stated: once the source iterator has completed or its next() has
\* failed, the final record of the list is marked isCompletedIterator.
C19_AsStated ==
    iter.state \in {"over", "failed"} => recs[FinalRecord].isCompletedIterator

\* C19 amended: when the source iterator completes, the final record is
\* marked and no patch is yielded for it; when its next() fails, the final
\* record is not marked, and it leaves the registry only as a yielded patch.
C19_CompletedOrFailed ==
    /\ iter.state = "over" =>
          /\ recs[FinalRecord].isCompletedIterator
          /\ \A i \in 1..Len(emitted) : emitted[i].rec # FinalRecord
    /\ iter.state = "failed" =>
          /\ ~recs[FinalRecord].isCompletedIterator
          /\ FinalRecord \notin Range(subsequentPayloads) =>
                \E i \in 1..Len(emitted) :
                    IsPatch(emitted[i]) /\ emitted[i].rec = FinalRecord

\* next() of the source iterator failed after an item was streamed, and the
\* record of the failure was yielded as a patch
C19_Witness ==
    /\ iter.state = "failed" /\ iter.items >= 1
    /\ FinalRecord \notin Range(subsequentPayloads)
    /\ \E i \in 1..Len(emitted) :
          IsPatch(emitted[i]) /\ emitted[i].rec = FinalRecord

\* the segments of a response path: a response key or a list index
Key == [k |-> "key", i |-> 0]
Index(i) == [k |-> "index", i |-> i]

\* a deferred fragment registered with the empty path whatever encloses it
RECURSIVE RecordPathFromRoot(_, _)
RecordPathFromRoot(rs, r) ==
    IF r = 0 THEN <<>>
    ELSE LET p == rs[r].parent
             under == RecordPathFromRoot(rs, p)
         IN  CASE rs[r].kind = "defer" -> <<>>
               [] rs[r].kind = "item" /\ p # 0 /\ rs[p].kind = "item" ->
                     SubSeq(under, 1, Len(under) - 1) \o <<Index(rs[r].index)>>
               [] OTHER -> under \o <<Key, Index(rs[r].index)>>

\* the `path` a record is created with (0: no record, the empty path):
\*   a deferred fragment: the path of the object whose sub-selection holds it,
\*     an object executed under the parent record (a field of the parent
\*     fragment, or the streamed item itself);
\*   a streamed item: addPath(path, index) on the path of the list field; its
\*     parentContext is the enclosing record for the first streamed item and
\*     the record of the item before it for the others;
\*   a step of a streamed iterator: addPath(path, index), parentContext the
\*     enclosing record
RECURSIVE RecordPath(_, _)
RecordPath(rs, r) ==
    IF r = 0 THEN <<>>
    ELSE LET p == rs[r].parent
             under == RecordPath(rs, p)
         IN  CASE rs[r].kind = "defer" ->
                     IF p = 0 \/ rs[p].kind = "item" THEN under
                     ELSE under \o <<Key>>
               [] rs[r].kind = "item" /\ p # 0 /\ rs[p].kind = "item" ->
                     SubSeq(under, 1, Len(under) - 1) \o <<Index(rs[r].index)>>
               [] OTHER -> under \o <<Key, Index(rs[r].index)>>

PatchCalls(r) ==
    {i \in 1..Len(emitted) : emitted[i].kind = "patch" /\ emitted[i].rec = r}

\* C30: whatever the number of next() calls outstanding at once, a record is
\* the patch of at most one resolved call, it stands at most once in the
\* registry and never again once its patch was yielded, and no call resolves
\* twice.
C30_EmittedOnce ==
    /\ \A r \in 1..Len(recs) :
          /\ Cardinality(PatchCalls(r)) <= 1
          /\ Count(subsequentPayloads, r) <= 1
          /\ PatchCalls(r) # {} => r \notin Range(subsequentPayloads)
    /\ \A i, j \in 1..Len(emitted) :
          emitted[i].call = emitted[j].call => i = j

\* two patches went to two calls while an earlier call, made before both
\* resolved, is still outstanding
C30_Witness ==
    \E i, j \in 1..Len(emitted) :
        /\ i < j
        /\ emitted[i].kind = "patch" /\ emitted[j].kind = "patch"
        /\ emitted[i].rec # emitted[j].rec
        /\ \E c \in outstanding : c < emitted[i].call /\ c < emitted[j].call

-----------------------------------------------------------------------------
(* SpecList: completeListValue applied to a synchronous iterable.          *)

MaxLen == 3     \* items of the iterable
MaxInitial == 3     \* initialCount of @stream

\* how an item completes: to a value, as a promise, to null, or by raising
ItemKinds == {"value", "promise", "null", "throw"}

\* the list fields: n items, no @stream, @stream(if: false) or an active one
ListArgs ==
    UNION {[n : {n}, items : [1..n -> ItemKinds],
            stream : {"none", "ifFalse", "active"},
            initialCount : 0..MaxInitial, nonNull : BOOLEAN] : n \in 0..MaxLen}

\* getStreamValues: undefined without the directive or with if: false
GetStreamValues(a) ==
    IF a.stream = "none" THEN [defined |-> FALSE, initialCount |-> 0]
    ELSE IF a.stream = "ifFalse" THEN [defined |-> FALSE, initialCount |-> 0]
    ELSE [defined |-> TRUE, initialCount |-> a.initialCount]

\* a loop that streams only the items after index initialCount
ShouldStreamAfter(stream, index) ==
    stream.defined /\ index > stream.initialCount

\* `stream && typeof stream.initialCount === 'number' &&
\*  index >= stream.initialCount`
ShouldStream(stream, index) ==
    stream.defined /\ index >= stream.initialCount

\* executeStreamField: a new record for the item at `index`, chained after
\* parentContext, pushed onto subsequentPayloads
ExecuteStreamField(L, index) ==
    [L EXCEPT !.recs = Append(@, NewRecord("item", L.previous, index, 0)),
              !.subsequentPayloads = Append(@, Len(L.recs) + 1),
              !.previous = Len(L.recs) + 1]

\* completedResults.push(...)
PushResult(L, index, v) ==
    [L EXCEPT !.completedResults = Append(@, [index |-> index, v |-> v])]

\* completeListValue: the loop over the iterable from `index` on
RECURSIVE CompleteListValue(_, _, _)
CompleteListValue(L, a, index) ==
    IF index >= a.n
    THEN [L EXCEPT !.out = IF L.containsPromise THEN "promise" ELSE "list"]
    ELSE LET item == a.items[index + 1]
         IN  IF ShouldStream(GetStreamValues(a), index)
             THEN CompleteListValue(ExecuteStreamField(L, index), a, index + 1)
             ELSE IF item = "promise"
             THEN CompleteListValue(
                      [PushResult(L, index, "promise") EXCEPT
                          !.containsPromise = TRUE], a, index + 1)
             ELSE IF item = "value" \/ (item = "null" /\ ~a.nonNull)
             THEN CompleteListValue(PushResult(L, index, item), a, index + 1)
             \* completeValue raised: handleFieldError in the catch block
             ELSE IF a.nonNull
             THEN [L EXCEPT !.out = "throw"]
             ELSE CompleteListValue(
                      [PushResult(L, index, "null") EXCEPT
                          !.errors = Append(@, index)], a, index + 1)

InitList ==
    /\ listArgs \in ListArgs
    /\ listResult = NoListResult
    /\ typeArgs = NoType
    /\ typeResult = NoTypeResult
    /\ syncResult = NoSync
    /\ valueArgs = NoValue
    /\ valueResult = NoValueResult
    /\ payloadArgs = <<>>
    /\ payloadResult = <<>>
    /\ cfg = Join(PlainFields @@ [op |-> "query"], PlainRequest)
    /\ st = [f \in Fields |-> "idle"]
    /\ err = [f \in Fields |-> 0]
    /\ errors = <<>>
    /\ recErrors = [f \in Fields |-> <<>>]
    /\ invoked = <<>>
    /\ subsequentPayloads = <<>>
    /\ recData = [f \in Fields |-> "none"]
    /\ rootSt = "idle"
    /\ serialNext = 0
    /\ returned = "none"
    /\ resolvedTo = "none"
    /\ late = 0
    /\ response = NoResponse
    /\ resultKeys = [m \in Maps |-> <<>>]
    /\ YieldIdle

\* completeListValue(exeContext, returnType, fieldNodes, info, path, result)
CompleteList ==
    /\ listResult.out = "none"
    /\ LET L == CompleteListValue(
                    [out |-> "none", completedResults |-> <<>>, errors |-> <<>>,
                     containsPromise |-> FALSE, recs |-> recs,
                     subsequentPayloads |-> subsequentPayloads, previous |-> 0],
                    listArgs, 0)
       IN  /\ listResult' = [out |-> L.out,
                             completedResults |-> L.completedResults,
                             errors |-> L.errors]
           /\ recs' = L.recs
           /\ subsequentPayloads' = L.subsequentPayloads
    /\ UNCHANGED <<cfg, st, err, errors, recErrors, invoked, recData, rootSt,
                   serialNext, returned, resolvedTo, late, response,
                   resultKeys, listArgs, typeArgs, typeResult, syncResult,
                   valueArgs, valueResult, payloadArgs, payloadResult>>
    /\ UNCHANGED <<jobs, hasReturnedInitialResult, isDone, outstanding,
                   nextCount, emitted, retState, iter, inflight>>

NextList == CompleteList

SpecList == InitList /\ [][NextList]_vars

-----------------------------------------------------------------------------
(* Properties of SpecList *)

Least(a, b) == IF a <= b THEN a ELSE b

\* the list holds the completed items of indices 0..min(n,k)-1, in order
InitialItems(n, k) ==
    /\ Len(listResult.completedResults) = Least(n, k)
    /\ \A i \in 1..Least(n, k) :
          /\ listResult.completedResults[i].index = i - 1
          /\ listResult.completedResults[i].v =
                IF listArgs.items[i] = "throw" THEN "null" ELSE listArgs.items[i]

\* one record per index k..n-1, registered in index order, each chained after
\* the one before
StreamedItems(n, k) ==
    /\ Len(recs) = IF n > k THEN n - k ELSE 0
    /\ subsequentPayloads = [j \in 1..Len(recs) |-> j]
    /\ \A j \in 1..Len(recs) :
          /\ recs[j].kind = "item"
          /\ recs[j].index = k + j - 1
          /\ recs[j].parent = j - 1

\* an item before initialCount raised under a non-null item type
InitialItemRaises ==
    /\ listArgs.nonNull
    /\ \E i \in 1..Least(listArgs.n, listArgs.initialCount) :
          listArgs.items[i] \in {"null", "throw"}

-----------------------------------------------------------------------------
(* SpecType: completeAbstractValue applied to a value of abstract type, with *)
(* the default type resolver or a resolveType of the schema.                 *)

MaxTypes == 2     \* possible types of the abstract type

\* the execution's variables while no operation is executed
CoreIdle ==
    /\ cfg = Join(PlainFields @@ [op |-> "query"], PlainRequest)
    /\ st = [f \in Fields |-> "idle"]
    /\ err = [f \in Fields |-> 0]
    /\ errors = <<>>
    /\ recErrors = [f \in Fields |-> <<>>]
    /\ invoked = <<>>
    /\ subsequentPayloads = <<>>
    /\ recData = [f \in Fields |-> "none"]
    /\ rootSt = "idle"
    /\ serialNext = 0
    /\ returned = "none"
    /\ resolvedTo = "none"
    /\ late = 0
    /\ response = NoResponse
    /\ resultKeys = [m \in Maps |-> <<>>]
    /\ syncResult = NoSync

\* what isTypeOf of a possible type does: the type has none, or it returns a
\* boolean, or a promise of one
IsTypeOfs == {"absent", "true", "false", "promiseTrue", "promiseFalse"}

RuntimeValues(n) ==
    {RuntimeValue(k, 0) :
        k \in {"null", "objectType", "nonString", "missing", "scalar", "other"}}
      \cup {RuntimeValue("possible", i) : i \in 1..n}

\* the names a string can hold
Names(n) == {v \in RuntimeValues(n) : v.k \in {"missing", "scalar", "other",
                                               "possible"}}

\* the values of abstract type: with the default type resolver (__typename a
\* string or not) or with a resolveType returning a value or a promise of it
TypeArgs ==
    UNION {
      [n : {n}, isTypeOf : [1..n -> IsTypeOfs],
       typename : Names(n) \cup {RuntimeValue("null", 0)},
       custom : {FALSE}, returns : {RuntimeValue("null", 0)}, async : {FALSE}]
        \cup
      [n : {n}, isTypeOf : [1..n -> IsTypeOfs],
       typename : {RuntimeValue("null", 0)},
       custom : {TRUE}, returns : RuntimeValues(n), async : BOOLEAN]
      : n \in 1..MaxTypes}

\* the loop of defaultTypeResolver over possibleTypes from index i: D.called
\* lists the isTypeOf calls made, D.promised the indices whose result is a
\* promise
RECURSIVE DefaultScan(_, _, _)
DefaultScan(a, i, D) ==
    IF i > a.n
    THEN IF D.promised # <<>>
         THEN [D EXCEPT !.out = "promise"]
         ELSE [D EXCEPT !.out = "value", !.v = RuntimeValue("null", 0)]
    ELSE CASE a.isTypeOf[i] = "absent" -> DefaultScan(a, i + 1, D)
           [] a.isTypeOf[i] \in {"promiseTrue", "promiseFalse"} ->
                 DefaultScan(a, i + 1,
                     [D EXCEPT !.called = Append(@, i),
                               !.promised = Append(@, i)])
           [] a.isTypeOf[i] = "true" ->
                 [D EXCEPT !.called = Append(@, i), !.out = "value",
                           !.v = RuntimeValue("possible", i)]
           [] OTHER -> DefaultScan(a, i + 1, [D EXCEPT !.called = Append(@, i)])

\* defaultTypeResolver
DefaultTypeResolver(a) ==
    IF a.typename.k # "null"
    THEN [out |-> "value", v |-> a.typename, called |-> <<>>, promised |-> <<>>]
    ELSE DefaultScan(a, 1, [out |-> "none", v |-> RuntimeValue("null", 0),
                            called |-> <<>>, promised |-> <<>>])

\* the callback of Promise.all(promisedIsTypeOfResults): the first index whose
\* result is truthy
RECURSIVE FirstPromised(_, _, _)
FirstPromised(a, promised, j) ==
    IF j > Len(promised) THEN RuntimeValue("null", 0)
    ELSE IF a.isTypeOf[promised[j]] = "promiseTrue"
    THEN RuntimeValue("possible", promised[j])
    ELSE FirstPromised(a, promised, j + 1)

\* `returnType.resolveType ?? exeContext.typeResolver`, called
ResolveTypeFn(a) ==
    IF a.custom
    THEN [out |-> IF a.async THEN "promise" ELSE "value", v |-> a.returns,
          called |-> <<>>, promised |-> <<>>]
    ELSE DefaultTypeResolver(a)

\* ensureValidRuntimeType accepting every name of an object type
EnsureObjectType(v) == v.k \in {"other", "possible"}

\* ensureValidRuntimeType: TRUE when it returns the type, FALSE when it throws
EnsureValidRuntimeType(v) ==
    CASE v.k = "null" -> FALSE
      [] v.k = "objectType" -> FALSE
      [] v.k = "nonString" -> FALSE
      [] v.k = "missing" -> FALSE
      [] v.k = "scalar" -> FALSE
      [] v.k = "other" -> FALSE
      [] OTHER -> TRUE

\* completeObjectValue for the runtime type: its isTypeOf guard, then the
\* sub-selection
CompleteRuntimeObject(a, R, v) ==
    IF ~EnsureValidRuntimeType(v)
    THEN [R EXCEPT !.phase = "done", !.runtime = v, !.out = "error"]
    ELSE LET t == IF v.k = "possible" THEN v.i ELSE 0
             guard == IF t = 0 THEN "absent" ELSE a.isTypeOf[t]
         IN  CASE guard = "false" ->
                    [R EXCEPT !.phase = "done", !.runtime = v, !.out = "error"]
               [] guard \in {"promiseTrue", "promiseFalse"} ->
                    [R EXCEPT !.phase = "typing", !.runtime = v, !.type = t]
               [] OTHER ->
                    [R EXCEPT !.phase = "done", !.runtime = v, !.type = t,
                              !.out = "object"]

InitType ==
    /\ typeArgs \in TypeArgs
    /\ typeResult = NoTypeResult
    /\ listArgs = NoList
    /\ listResult = NoListResult
    /\ valueArgs = NoValue
    /\ valueResult = NoValueResult
    /\ payloadArgs = <<>>
    /\ payloadResult = <<>>
    /\ CoreIdle
    /\ YieldIdle

\* completeAbstractValue(exeContext, returnType, fieldNodes, info, path, result)
CompleteAbstractValue ==
    /\ typeResult.phase = "none"
    /\ LET r == ResolveTypeFn(typeArgs)
           R == [typeResult EXCEPT !.called = r.called, !.pending = r.promised]
       IN  typeResult' =
             IF r.out = "promise"
             THEN [R EXCEPT !.phase = "resolvingType"]
             ELSE CompleteRuntimeObject(typeArgs, R, r.v)
    /\ UNCHANGED <<typeArgs, listArgs, listResult, syncResult, valueArgs,
                   valueResult, payloadArgs, payloadResult>>
    /\ UNCHANGED <<cfg, st, err, errors, recErrors, invoked, recData, rootSt,
                   serialNext, returned, resolvedTo, late, response,
                   resultKeys, subsequentPayloads, yieldVars>>

\* the promise the type resolver returned settles: runtimeType.then(...)
RuntimeTypeSettles ==
    /\ typeResult.phase = "resolvingType"
    /\ typeResult' =
          CompleteRuntimeObject(typeArgs, typeResult,
              IF typeArgs.custom THEN typeArgs.returns
              ELSE FirstPromised(typeArgs, typeResult.pending, 1))
    /\ UNCHANGED <<typeArgs, listArgs, listResult, syncResult, valueArgs,
                   valueResult, payloadArgs, payloadResult>>
    /\ UNCHANGED <<cfg, st, err, errors, recErrors, invoked, recData, rootSt,
                   serialNext, returned, resolvedTo, late, response,
                   resultKeys, subsequentPayloads, yieldVars>>

\* the promise isTypeOf of the runtime type returned settles
RuntimeIsTypeOfSettles ==
    /\ typeResult.phase = "typing"
    /\ typeResult' =
          [typeResult EXCEPT
              !.phase = "done",
              !.out = IF typeArgs.isTypeOf[typeResult.type] = "promiseTrue"
                      THEN "object" ELSE "error"]
    /\ UNCHANGED <<typeArgs, listArgs, listResult, syncResult, valueArgs,
                   valueResult, payloadArgs, payloadResult>>
    /\ UNCHANGED <<cfg, st, err, errors, recErrors, invoked, recData, rootSt,
                   serialNext, returned, resolvedTo, late, response,
                   resultKeys, subsequentPayloads, yieldVars>>

NextType ==
    \/ CompleteAbstractValue
    \/ RuntimeTypeSettles
    \/ RuntimeIsTypeOfSettles

SpecType == InitType /\ [][NextType]_vars

-----------------------------------------------------------------------------
(* Properties of SpecType *)

\* the first possible type, in declaration order, whose isTypeOf result is
\* truthy (0: none)
RECURSIVE FirstTruthy(_, _)
FirstTruthy(a, i) ==
    IF i > a.n THEN 0
    ELSE IF a.isTypeOf[i] \in {"true", "promiseTrue"} THEN i
    ELSE FirstTruthy(a, i + 1)

\* C22: once the default type resolver has answered, its answer is __typename
\* when that is a string, and otherwise the first possible type in declaration
\* order whose isTypeOf result is truthy, be it a promise or not.
C22_FirstTruthy ==
    ~typeArgs.custom /\ typeResult.phase \in {"typing", "done"} =>
        typeResult.runtime =
            IF typeArgs.typename.k # "null" THEN typeArgs.typename
            ELSE IF FirstTruthy(typeArgs, 1) = 0 THEN RuntimeValue("null", 0)
            ELSE RuntimeValue("possible", FirstTruthy(typeArgs, 1))

\* C28: the sub-selection of a value of abstract type is executed only against
\* the runtime type the type resolver named, and only when that is the name
\* of an object type of the schema that is a possible type of the abstract
\* type; for every other answer the completion ends in a field error and the
\* sub-selection is never executed.
C28_ValidRuntimeType ==
    /\ typeResult.phase # "done" => typeResult.out = "none"
    /\ typeArgs.custom /\ typeResult.phase \in {"typing", "done"} =>
          typeResult.runtime = typeArgs.returns
    /\ typeResult.out = "object" =>
          /\ typeResult.runtime.k = "possible"
          /\ typeResult.type = typeResult.runtime.i
    /\ typeResult.phase = "done" /\ typeResult.runtime.k # "possible" =>
          typeResult.out = "error"

\* a promised name of an object type that is not a possible type was refused
C28_Witness ==
    /\ typeArgs.custom /\ typeArgs.async
    /\ typeArgs.returns.k = "other"
    /\ typeResult.phase = "done"
    /\ typeResult.out = "error"

-----------------------------------------------------------------------------
(* SpecValue: executeField for one field or list element, applied to what   *)
(* was yielded and to the same error raised instead.                         *)

MaxErr == 2     \* distinct error objects

\* what a resolver does: returns a value, null or an Error object, raises, or
\* returns a promise of one of these
ResultKinds == {"value", "null", "error", "throw",
                "promiseValue", "promiseNull", "promiseError", "promiseReject"}

\* a position (a field, or an element of its list) of nullable or non-null
\* type, executed under a payload record or not, and what is yielded there
ValueArgs ==
    [result : ResultKinds, nonNull : BOOLEAN, rec : BOOLEAN, item : BOOLEAN,
     e : 1..MaxErr]

\* the same position where the error is raised (or the promise rejected with
\* it) instead of being yielded
Raising(a) ==
    [a EXCEPT !.result = CASE @ = "error" -> "throw"
                           [] @ = "promiseError" -> "promiseReject"
                           [] OTHER -> @]

\* pathToArray(path) / pathToArray(itemPath): the field's response key, then
\* the index of the element
ValuePath(a) == IF a.item THEN <<1, 0>> ELSE <<1>>

\* locatedError(rawError, fieldNodes, pathToArray(path)); 0 is the error
\* completeValue makes for a null under a non-null type
Located(a, e) == [e |-> e, path |-> ValuePath(a)]

\* handleFieldError(error, returnType, errors) with
\* errors = asyncPayloadRecord?.errors ?? exeContext.errors
HandleValueError(R, a, e) ==
    IF a.nonNull
    THEN [R EXCEPT !.phase = "done", !.out = "throw",
                   !.thrown = <<Located(a, e)>>]
    ELSE IF a.rec
    THEN [R EXCEPT !.phase = "done", !.out = "null",
                   !.recErrors = Append(@, Located(a, e))]
    ELSE [R EXCEPT !.phase = "done", !.out = "null",
                   !.errors = Append(@, Located(a, e))]

\* completeValue without its `result instanceof Error` test
CompleteResultKeepsError(a, v) ==
    IF v = "null" /\ a.nonNull THEN [out |-> "throw", e |-> 0]
    ELSE IF v = "null" THEN [out |-> "null", e |-> 0]
    ELSE [out |-> "value", e |-> 0]

\* completeValue for a leaf: an Error is thrown, null under a non-null type
\* throws a new error
CompleteResult(a, v) ==
    IF v = "error" THEN [out |-> "throw", e |-> a.e]
    ELSE IF v = "null" /\ a.nonNull THEN [out |-> "throw", e |-> 0]
    ELSE IF v = "null" THEN [out |-> "null", e |-> 0]
    ELSE [out |-> "value", e |-> 0]

\* completeValue, with the catch block or the rejection handler around it
CompleteOrHandle(R, a, v) ==
    LET c == CompleteResult(a, v)
    IN  IF c.out = "throw" THEN HandleValueError(R, a, c.e)
        ELSE [R EXCEPT !.phase = "done", !.out = c.out]

\* executeField, or one turn of the loop of completeListValue, up to its
\* return
ExecuteValue(a) ==
    CASE a.result = "throw" -> HandleValueError(NoRun, a, a.e)
      [] a.result \in {"promiseValue", "promiseNull", "promiseError",
                       "promiseReject"} -> [NoRun EXCEPT !.phase = "pending"]
      [] OTHER -> CompleteOrHandle(NoRun, a, a.result)

\* the reactions to the promise: completeValue on the resolved value, the
\* error handler on a rejection
SettleValue(R, a) ==
    CASE a.result = "promiseReject" -> HandleValueError(R, a, a.e)
      [] a.result = "promiseValue" -> CompleteOrHandle(R, a, "value")
      [] a.result = "promiseNull" -> CompleteOrHandle(R, a, "null")
      [] OTHER -> CompleteOrHandle(R, a, "error")

InitValue ==
    /\ valueArgs \in ValueArgs
    /\ valueResult = NoValueResult
    /\ payloadArgs = <<>>
    /\ payloadResult = <<>>
    /\ listArgs = NoList
    /\ listResult = NoListResult
    /\ typeArgs = NoType
    /\ typeResult = NoTypeResult
    /\ CoreIdle
    /\ YieldIdle

\* executeField(...) on the position, and on the position that raises
ExecuteFieldCall ==
    /\ valueResult.yielded.phase = "none"
    /\ valueResult' = [yielded |-> ExecuteValue(valueArgs),
                       raised |-> ExecuteValue(Raising(valueArgs))]
    /\ UNCHANGED <<valueArgs, typeArgs, typeResult, listArgs, listResult,
                   payloadArgs, payloadResult>>
    /\ UNCHANGED <<cfg, st, err, errors, recErrors, invoked, recData, rootSt,
                   serialNext, returned, resolvedTo, late, response,
                   resultKeys, syncResult, subsequentPayloads, yieldVars>>

\* the promise of the position settles
ValueSettles ==
    /\ valueResult.yielded.phase = "pending"
    /\ valueResult' =
          [yielded |-> SettleValue(valueResult.yielded, valueArgs),
           raised |-> SettleValue(valueResult.raised, Raising(valueArgs))]
    /\ UNCHANGED <<valueArgs, typeArgs, typeResult, listArgs, listResult,
                   payloadArgs, payloadResult>>
    /\ UNCHANGED <<cfg, st, err, errors, recErrors, invoked, recData, rootSt,
                   serialNext, returned, resolvedTo, late, response,
                   resultKeys, syncResult, subsequentPayloads, yieldVars>>

NextValue ==
    \/ ExecuteFieldCall
    \/ ValueSettles

SpecValue == InitValue /\ [][NextValue]_vars

-----------------------------------------------------------------------------
(* Properties of SpecValue *)

\* C25: a position where an Error object is yielded, directly or through a
\* promise, ends as the position where that error is raised ends: the same
\* null or the same bubbling, and the same located error with the same path
\* in the same log.
C25_ErrorValue ==
    valueArgs.result \in {"error", "promiseError"} =>
        /\ valueResult.yielded = valueResult.raised
        /\ valueResult.yielded.phase = "done" =>
              LET R == valueResult.yielded
                  x == Located(valueArgs, valueArgs.e)
              IN  /\ R.out = IF valueArgs.nonNull THEN "throw" ELSE "null"
                  /\ R.thrown = IF valueArgs.nonNull THEN <<x>> ELSE <<>>
                  /\ R.errors = IF valueArgs.nonNull \/ valueArgs.rec
                                THEN <<>> ELSE <<x>>
                  /\ R.recErrors = IF ~valueArgs.nonNull /\ valueArgs.rec
                                   THEN <<x>> ELSE <<>>

\* a promise resolved with an Error object for a nullable list element under
\* a payload record
C25_Witness ==
    /\ valueArgs.result = "promiseError"
    /\ valueArgs.item /\ valueArgs.rec /\ ~valueArgs.nonNull
    /\ valueResult.yielded.phase = "done"
    /\ Len(valueResult.yielded.recErrors) = 1

-----------------------------------------------------------------------------
(* SpecPayload: the data promises of a chain of payload records, each       *)
(* record the parentContext of the next.                                     *)

MaxChain == 2     \* records of the chain

\* what the work beneath a record does:
\*   defer  executeFields returns the map, throws, or returns a promise that
\*          resolves or rejects
\*   item   the item is a value, null, an Error, or a promise of a value or a
\*          rejected one
\*   iter   iterator.next() reports done, gives an item that completes (at
\*          once or through a promise) or fails to (by throwing, or through
\*          a rejected promise), or rejects
WorkKinds(kind) ==
    CASE kind = "defer" -> {"data", "throw", "promiseData", "promiseReject"}
      [] kind = "item" -> {"value", "null", "error", "promiseValue",
                           "promiseReject"}
      [] OTHER -> {"done", "item", "itemThrows", "itemAsync",
                   "itemAsyncReject", "reject"}

RecordArgs ==
    UNION {[kind : {k}, work : WorkKinds(k),
            nonNull : IF k = "defer" THEN {FALSE} ELSE BOOLEAN] : k \in Kinds}

PayloadArgs == UNION {[1..n -> RecordArgs] : n \in 1..MaxChain}

\* a promise in the chain: fulfilled with data, or rejected with error e;
\* errors is the record's error list so far
Fulfilled(data, errs) == [ok |-> TRUE, data |-> data, errors |-> errs, e |-> 0]
Rejected(e, errs) == [ok |-> FALSE, data |-> "none", errors |-> errs, e |-> e]

\* handleFieldError(error, itemType, asyncPayloadRecord.errors)
HandleItemError(a, i, errs) ==
    IF a.nonNull THEN Rejected(i, errs)
    ELSE Fulfilled("null", Append(errs, i))

\* the promise of the work beneath record i, after the handlers attached to
\* it (error i is the error the work raises)
Work(a, i, errs) ==
    CASE a.work \in {"data", "promiseData", "value", "promiseValue", "item",
                     "itemAsync"} -> Fulfilled("data", errs)
      [] a.work = "throw" -> Fulfilled("null", errs)
      [] a.work \in {"promiseReject", "itemAsyncReject"} /\ a.kind # "item" ->
            Rejected(i, errs)
      [] a.work = "done" -> Fulfilled("null", errs)
      [] a.work = "null" /\ ~a.nonNull -> Fulfilled("null", errs)
      [] OTHER -> HandleItemError(a, i, errs)

\* `.then((data) => parentContext?.dataPromise
\*        ? parentContext.dataPromise.then(() => data) : data)`
ChainAfter(out, hasParent, parent) ==
    IF out.ok /\ hasParent /\ parent.phase = "rejected"
    THEN Rejected(parent.e, out.errors)
    ELSE out

\* a data promise without the final catch
NoCatch(out) ==
    IF out.ok
    THEN [phase |-> "fulfilled", data |-> out.data, errors |-> out.errors,
          e |-> 0]
    ELSE [phase |-> "rejected", data |-> "none", errors |-> out.errors,
          e |-> out.e]

\* `.catch((e) => { asyncPayloadRecord.errors.push(e); return null; })`
CatchInto(out) ==
    IF out.ok
    THEN [phase |-> "fulfilled", data |-> out.data, errors |-> out.errors,
          e |-> 0]
    ELSE [phase |-> "fulfilled", data |-> "null",
          errors |-> Append(out.errors, out.e), e |-> 0]

InitPayload ==
    /\ payloadArgs \in PayloadArgs
    /\ payloadResult = <<>>
    /\ valueArgs = NoValue
    /\ valueResult = NoValueResult
    /\ listArgs = NoList
    /\ listResult = NoListResult
    /\ typeArgs = NoType
    /\ typeResult = NoTypeResult
    /\ CoreIdle
    /\ YieldIdle

\* executeDeferredFragment / executeStreamField / executeStreamIterator's
\* next(index): the record is created and registered, its data promise
\* pending; executeDeferredFragment catches what executeFields throws
RegisterRecord ==
    /\ Len(payloadResult) < Len(payloadArgs)
    /\ LET i == Len(payloadResult) + 1
       IN  payloadResult' =
             Append(payloadResult,
                    [phase |-> "pending", data |-> "none",
                     errors |-> IF payloadArgs[i].work = "throw"
                                THEN <<i>> ELSE <<>>,
                     e |-> 0])
    /\ UNCHANGED <<payloadArgs, valueArgs, valueResult, typeArgs, typeResult,
                   listArgs, listResult>>
    /\ UNCHANGED <<cfg, st, err, errors, recErrors, invoked, recData, rootSt,
                   serialNext, returned, resolvedTo, late, response,
                   resultKeys, syncResult, subsequentPayloads, yieldVars>>

\* the data promise of record i settles: its work has settled and so has
\* the data promise of its parentContext
DataPromiseSettles(i) ==
    /\ i \in 1..Len(payloadResult)
    /\ payloadResult[i].phase = "pending"
    /\ i > 1 => payloadResult[i - 1].phase # "pending"
    /\ payloadResult' =
          [payloadResult EXCEPT
              ![i] = CatchInto(
                         ChainAfter(Work(payloadArgs[i], i, @.errors), i > 1,
                                    payloadResult[IF i > 1 THEN i - 1 ELSE i]))]
    /\ UNCHANGED <<payloadArgs, valueArgs, valueResult, typeArgs, typeResult,
                   listArgs, listResult>>
    /\ UNCHANGED <<cfg, st, err, errors, recErrors, invoked, recData, rootSt,
                   serialNext, returned, resolvedTo, late, response,
                   resultKeys, syncResult, subsequentPayloads, yieldVars>>

NextPayload ==
    \/ RegisterRecord
    \/ \E i \in 1..MaxChain : DataPromiseSettles(i)

SpecPayload == InitPayload /\ [][NextPayload]_vars

-----------------------------------------------------------------------------
(* Properties of SpecPayload *)

\* the work beneath the record fails
WorkFails(a) ==
    \/ a.work \in {"throw", "promiseReject", "error", "itemThrows",
                   "itemAsyncReject", "reject"}
    \/ a.work = "null" /\ a.nonNull

\* C29: the data promise of a registered record is never rejected; when the
\* work beneath the record fails it is fulfilled with null and the record's
\* own error list holds that error, once, and nothing else; otherwise the
\* list is empty.
C29_NeverRejects ==
    \A i \in 1..Len(payloadResult) :
        LET R == payloadResult[i]
        IN  /\ R.phase \in {"pending", "fulfilled"}
            /\ R.phase = "fulfilled" =>
                  IF WorkFails(payloadArgs[i])
                  THEN R.data = "null" /\ R.errors = <<i>>
                  ELSE R.errors = <<>>

\* a non-null streamed item whose promise was rejected became null data with
\* its error, and the record chained after it was fulfilled with its data
C29_Witness ==
    /\ Len(payloadResult) = 2
    /\ payloadArgs[1] = [kind |-> "item", work |-> "promiseReject",
                         nonNull |-> TRUE]
    /\ payloadResult[1] = [phase |-> "fulfilled", data |-> "null",
                           errors |-> <<1>>, e |-> 0]
    /\ payloadArgs[2].kind = "item"
    /\ payloadResult[2].phase = "fulfilled" /\ payloadResult[2].data = "data"

-----------------------------------------------------------------------------
(* SpecAsyncList: completeAsyncIteratorValue applied to an async iterator,   *)
(* and executeStreamIterator taking the iterator over.                       *)

\* how the item iterator.next() gives completes: to a value, by raising, or
\* to a promise that is fulfilled or rejected
AsyncItemKinds == {"value", "throw", "promise", "promiseReject"}

\* the list fields over an async iterator: its items, how it ends (done, or
\* a rejected next()), @stream or not, the item type nullable or not
AsyncListArgs ==
    UNION {[n : {n}, items : [1..n -> AsyncItemKinds],
            end : {"done", "reject"},
            stream : {"none", "active"},
            initialCount : 0..MaxInitial, nonNull : BOOLEAN] : n \in 0..MaxLen}

\* completeAsyncIteratorValue has not been called
NoAsyncList ==
    [phase |-> "idle", mode |-> "idle", outstanding |-> 0, calls |-> 0,
     produced |-> 0, index |-> 0, completedResults |-> <<>>,
     containsPromise |-> FALSE, alias |-> FALSE, delivered |-> <<>>,
     errors |-> <<>>, awaiting |-> "none"]

\* a step that calls iterator.next() twice
IteratorNextTwice(L) ==
    [L EXCEPT !.outstanding = @ + 2, !.calls = @ + 2]

\* iterator.next()
IteratorNextCall(L) ==
    [L EXCEPT !.outstanding = @ + 1, !.calls = @ + 1]

\* completedResults.push(v): the array the promise was resolved with, when
\* it was handed on as it is
PushCompleted(L, v) ==
    [L EXCEPT !.completedResults = Append(@, v),
              !.delivered = IF L.alias THEN Append(@, v) ELSE @]

\* resolve(completedResults) and the reaction
\* `containsPromise ? Promise.all(completedResults) : completedResults`,
\* which runs before the iterator gives anything more
ResolveList(L) ==
    IF L.phase # "pending" THEN L
    ELSE IF ~L.containsPromise
    THEN [L EXCEPT !.phase = "resolved", !.alias = TRUE,
                   !.delivered = L.completedResults]
    ELSE IF \E j \in 1..Len(L.completedResults) :
                L.completedResults[j] = "promiseReject"
    THEN [L EXCEPT !.phase = "rejected"]
    ELSE [L EXCEPT !.phase = "resolved",
                   !.delivered =
                       [j \in 1..Len(L.completedResults) |->
                           IF L.completedResults[j] = "promise"
                           THEN "value" ELSE L.completedResults[j]]]

\* reject(e)
RejectList(L) ==
    IF L.phase # "pending" THEN L ELSE [L EXCEPT !.phase = "rejected"]

\* executeStreamIterator's next(index): a record with the iterator, its data
\* promise started by iterator.next(), pushed onto subsequentPayloads
StreamIteratorNext(L, index) ==
    [IteratorNextCall(L) EXCEPT
        !.mode = "stream", !.index = index,
        !.recs = Append(@, NewRecord("iter", 0, index,
                                     IF L.mode = "stream" THEN Len(@) ELSE 0)),
        !.subsequentPayloads = Append(@, Len(L.recs) + 1)]

\* next(index, completedResults) of completeAsyncIteratorValue
AsyncNext(L, a, index) ==
    IF a.stream = "active" /\ index >= a.initialCount
    THEN ResolveList(StreamIteratorNext(L, index))
    ELSE IteratorNextCall([L EXCEPT !.index = index])

\* the reactions completeAsyncIteratorValue attached to iterator.next(), for
\* what it settled with (x: an item, or how the iterator ends)
InitialReaction(L, a, x) ==
    CASE x = "done" -> [ResolveList(L) EXCEPT !.mode = "over"]
      [] x = "reject" ->
            IF a.nonNull
            THEN [RejectList(PushCompleted(L, "null")) EXCEPT !.mode = "over"]
            ELSE [ResolveList([PushCompleted(L, "null") EXCEPT
                                  !.errors = Append(@, L.index)])
                    EXCEPT !.mode = "over"]
      [] x = "throw" ->
            IF a.nonNull
            THEN [RejectList(PushCompleted(L, "null")) EXCEPT !.mode = "over"]
            ELSE AsyncNext(ResolveList([PushCompleted(L, "null") EXCEPT
                                           !.errors = Append(@, L.index)]),
                           a, L.index + 1)
      [] x = "value" -> AsyncNext(PushCompleted(L, "value"), a, L.index + 1)
      [] OTHER ->
            AsyncNext([PushCompleted(L, x) EXCEPT !.containsPromise = TRUE],
                      a, L.index + 1)

\* the reactions executeStreamIterator attached to iterator.next()
StreamReaction(L, a, x) ==
    CASE x \in {"done", "reject"} -> [L EXCEPT !.mode = "over"]
      [] x = "value" -> StreamIteratorNext(L, L.index + 1)
      [] x = "throw" ->
            IF a.nonNull THEN [L EXCEPT !.mode = "over"]
            ELSE StreamIteratorNext(L, L.index + 1)
      [] OTHER -> [L EXCEPT !.awaiting = x]

\* the state of the list as one record, and back
AsyncCur == listResult @@ [recs |-> recs, subsequentPayloads |-> subsequentPayloads]

AsyncSet(L) ==
    /\ listResult' = [k \in DOMAIN NoAsyncList |-> L[k]]
    /\ recs' = L.recs
    /\ subsequentPayloads' = L.subsequentPayloads
    /\ UNCHANGED <<cfg, st, err, errors, recErrors, invoked, recData, rootSt,
                   serialNext, returned, resolvedTo, late, response,
                   resultKeys, listArgs, typeArgs, typeResult, syncResult,
                   valueArgs, valueResult, payloadArgs, payloadResult>>
    /\ UNCHANGED <<jobs, hasReturnedInitialResult, isDone, outstanding,
                   nextCount, emitted, retState, iter, inflight>>

InitAsyncList ==
    /\ listArgs \in AsyncListArgs
    /\ listResult = NoAsyncList
    /\ typeArgs = NoType
    /\ typeResult = NoTypeResult
    /\ valueArgs = NoValue
    /\ valueResult = NoValueResult
    /\ payloadArgs = <<>>
    /\ payloadResult = <<>>
    /\ CoreIdle
    /\ YieldIdle

\* completeAsyncIteratorValue(exeContext, itemType, fieldNodes, info, path,
\* iterator): the promise is created and next(0, []) runs
CompleteAsyncIteratorValue ==
    /\ listResult.phase = "idle"
    /\ AsyncSet(AsyncNext([AsyncCur EXCEPT !.phase = "pending",
                                           !.mode = "initial"],
                          listArgs, 0))

\* a call of iterator.next() settles, with the next item or the end
IteratorSettles ==
    /\ listResult.outstanding > 0
    /\ LET a == listArgs
           x == IF listResult.produced < a.n
                THEN a.items[listResult.produced + 1] ELSE a.end
           L == [AsyncCur EXCEPT !.outstanding = @ - 1,
                                 !.produced = IF listResult.produced < a.n
                                              THEN @ + 1 ELSE @]
       IN  AsyncSet(IF listResult.mode = "stream"
                    THEN StreamReaction(L, a, x)
                    ELSE InitialReaction(L, a, x))

\* the promise completeValue returned for a streamed item settles
StreamItemCompletes ==
    /\ listResult.awaiting # "none"
    /\ AsyncSet(IF listResult.awaiting = "promise"
                THEN StreamIteratorNext([AsyncCur EXCEPT !.awaiting = "none"],
                                        listResult.index + 1)
                ELSE [AsyncCur EXCEPT !.awaiting = "none", !.mode = "over"])

NextAsyncList ==
    \/ CompleteAsyncIteratorValue
    \/ IteratorSettles
    \/ StreamItemCompletes

SpecAsyncList == InitAsyncList /\ [][NextAsyncList]_vars

-----------------------------------------------------------------------------
(* Properties of SpecAsyncList *)

\* C32: at most one call of iterator.next() is unsettled at any time, before,
\* at and after the hand-over to executeStreamIterator.
C32_OneOutstanding ==
    listResult.outstanding <= 1

\* an item failed before initialCount was reached, the list went on, and the
\* call made by executeStreamIterator after the hand-over is the only one
\* unsettled
C32_Witness ==
    /\ listResult.mode = "stream"
    /\ listResult.outstanding = 1
    /\ listResult.errors # <<>>
    /\ listResult.calls >= 3
    /\ Len(recs) >= 2

\* the list the field is to complete to: one entry per item, null where the
\* completion of the item raised
ExpectedList(a) ==
    [j \in 1..a.n |-> IF a.items[j] \in {"throw", "promiseReject"}
                      THEN "null" ELSE "value"]

\* C33: without @stream and with a nullable item type, once the iterator has
\* reported done, the list the completion promise resolved with holds one
\* entry per item in order, null where the item's completion raised.
C33_OneEntryPerItem ==
    /\ listArgs.stream = "none" /\ ~listArgs.nonNull /\ listArgs.end = "done"
    /\ listResult.mode = "over"
    => /\ listResult.phase = "resolved"
       /\ listResult.delivered = ExpectedList(listArgs)

====
